---- MODULE Spec2Model ----
(***************************************************************************)
(* Verification model of the research-agent ingestion pipeline.            *)
(*                                                                         *)
(* Storage engine (src/src/storage.py), URL normalisation and hashing      *)
(* (src/src/utils.py) and the run set-up of the controllers                *)
(* (src/gui.py, src/src/worker.py, src/src/supervisor.py).                 *)
(*                                                                         *)
(* Representation of the program's strings:                                *)
(*  - a text (title, abstract) is a sequence of characters over Chars;     *)
(*  - a URL is the record urlparse() splits it into; the empty string is   *)
(*    NoUrl;                                                               *)
(*  - the `source` column "a, b" is the sequence <<"a","b">> of its        *)
(*    comma-separated, stripped pieces ("" is <<>>);                       *)
(*  - the `source_url` column "u ; v" is the sequence <<u, v>> of its      *)
(*    semicolon-separated, stripped pieces ("" is <<>>);                   *)
(*  - a timestamp string "YYYY-MM-DD HH:MM:SS" is a natural number (the    *)
(*    strings order lexicographically as the numbers do);                  *)
(*  - the SQL NULL and Python's None are NULL;                             *)
(*  - a store is the set of the rows of its `papers` table.                *)
(* The columns published_date and authors are written by no modelled       *)
(* operation and read by none, and are left out of the rows.               *)
(***************************************************************************)
EXTENDS Integers, Sequences, FiniteSets, TLC

VARIABLES
    db,         \* path -> store: the database files "prod" and "working"
    phase,      \* controller position: "idle", "running", "finished"
    last,       \* the last storage operation: its inputs, the store before it, its results
    ops,        \* number of storage operations of the run so far
    cstore,     \* SpecConc: the store two worker processes share
    pc,         \* SpecConc: worker -> position inside add_paper
    cur,        \* SpecConc: worker -> the paper it adds and the row its SELECT fetched
    cret,       \* SpecConc: worker -> value add_paper returned
    comm,       \* SpecComm: the papers a and b and the store both orders start from
    storeAB,    \* SpecComm: the store that receives A then B
    storeBA,    \* SpecComm: the store that receives B then A
    commStep,   \* SpecComm: number of add_paper calls made on each store
    undo,       \* SpecUndo: a source's add_paper followed by its rollback
    sup,        \* SpecSup: the Supervisor, its worker processes, the bus, the store and the disk
    retry,      \* SpecRetry: a run with a failed and retried attempt beside a run without failure
    commit,     \* SpecCommit: the transfer of the staged files into the library
    ctl,        \* SpecStart: a controller starting a run with the prompt it was given
    flt,        \* SpecFilter: a FilterManager and the candidate it judges
    mig,        \* SpecSchema: a database file, opened by StorageManager and written to
    wrk,        \* SpecWorker: one run_worker process from its search to its end
    stp,        \* SpecStop: the cancel signal and what has happened since it was set
    nu,         \* SpecUrl: a URL, a variant of it and their normalizations
    dl,         \* SpecDownload: the files and rows of the papers one worker downloads
    reg,        \* SpecNames: one registered adapter, the rows it stored and its rollback
    hb,         \* SpecBeat: a worker's events, the clock and its last recorded heartbeat
    pr,         \* SpecProcs: the worker processes ever started for one display name
    gq          \* SpecGrammar: a query written from the grammar and its validation

\* the variables of the specifications that follow SpecComm
extVars == <<undo, sup, retry, commit>>

\* the variables of the specifications that follow SpecWorker
lastVars == <<stp, nu, dl, reg, hb, pr, gq>>

\* the variables of the specifications that follow SpecCommit
lateVars == <<ctl, flt, mig, wrk, lastVars>>

vars == <<db, phase, last, ops, cstore, pc, cur, cret, comm, storeAB, storeBA, commStep, extVars, lateVars>>

-----------------------------------------------------------------------------
(* Bounds of the model *)

MaxRows == 2        \* rows in the store a run starts from
MaxTime == 2        \* timestamps range over 1..MaxTime
MaxOps == 2         \* storage operations in one run
MaxDownloads == 1   \* papers one worker process downloads
MaxPromptLen == 5   \* symbols of a prompt
MaxGroups == 2      \* groups a query joins with AND
MaxTextLen == 2     \* symbols of a candidate's abstract
MaxResults == 2     \* candidates one search returns
MaxPathLen == 3     \* characters of a URL's path
MaxTitleLen == 2    \* characters of the title of a downloaded paper
TickSeconds == 300  \* seconds by which the clock advances in one step
MaxTicks == 4       \* steps of the clock
MaxBus == 2         \* events waiting on the bus
MaxProcs == 4       \* processes started for one display name
MaxTermLen == 2     \* symbols of a quoted term

-----------------------------------------------------------------------------
(* Values *)

\* SQL NULL / Python None (a value no hash and no timestamp takes)
NULL == -1

\* Python False as add_paper's return value (False == 0; row ids start at 1)
RetFalse == 0

Chars == {"A", "a", "b", "!", "?"}

\* str.lower() on one character
LowerChar(c) == IF c = "A" THEN "a" ELSE c

\* the character class [a-z0-9]
IsLowerAlnum(c) == c \in {"a", "b"}

LowerText(text) == [i \in 1..Len(text) |-> LowerChar(text[i])]

Range(s) == {s[i] : i \in 1..Len(s)}

Min(a, b) == IF a <= b THEN a ELSE b

\* the slice text[:n]
Prefix(text, n) == SubSeq(text, 1, Min(Len(text), n))

\* number of normalized characters is_content_similar compares
SimilarityPrefix == 500

NoUrl == [scheme |-> "", netloc |-> "", path |-> "", query |-> <<>>, fragment |-> ""]

\* http://Example.com/x/?utm_source=foo#top
UrlTracked == [scheme |-> "http", netloc |-> "Example.com", path |-> "/x/",
               query |-> <<"utm_source">>, fragment |-> "top"]
\* https://example.com/x
UrlX == [scheme |-> "https", netloc |-> "example.com", path |-> "/x",
         query |-> <<>>, fragment |-> ""]
\* https://example.com/y
UrlY == [scheme |-> "https", netloc |-> "example.com", path |-> "/y",
         query |-> <<>>, fragment |-> ""]

Urls == {NoUrl, UrlTracked, UrlX, UrlY}

\* the URLs candidates carry
PaperUrls == {NoUrl, UrlTracked, UrlY}

TrackingParams == {"utm_source", "utm_medium", "utm_campaign", "ref", "source", "fbclid", "gclid"}

\* str.lower() on the host names of Urls
LowerHost(h) == IF h = "Example.com" THEN "example.com" ELSE h

\* str.rstrip('/') on the paths of Urls
RStripSlash(p) == IF p = "/x/" THEN "/x" ELSE IF p = "/y/" THEN "/y" ELSE IF p = "/" THEN "" ELSE p

IsNotTracking(k) == k \notin TrackingParams

normalize_url(url) ==
    IF url = NoUrl THEN url
    ELSE [scheme   |-> "https",
          netloc   |-> LowerHost(url.netloc),
          path     |-> RStripSlash(url.path),
          query    |-> SelectSeq(url.query, IsNotTracking),
          fragment |-> ""]

\* generate_stable_hash: 0 for the empty text; for every other text the
\* function computes hash_bytes and ends without a return statement, so the
\* caller receives None.
generate_stable_hash(textIsEmpty) == IF textIsEmpty THEN 0 ELSE NULL

normalize_text(text) == IF text = <<>> THEN <<>> ELSE SelectSeq(LowerText(text), IsLowerAlnum)

is_content_similar(text1, text2) ==
    IF text1 = <<>> \/ text2 = <<>> THEN FALSE
    ELSE Prefix(normalize_text(text1), SimilarityPrefix) = Prefix(normalize_text(text2), SimilarityPrefix)

Sources == {"arxiv", "lesswrong", "aaai"}
Titles == {<<"!">>, <<"A">>}
Abstracts == {<<>>, <<"A", "!">>, <<"b">>}
Times == 1..MaxTime

\* the run id the controller hands to every worker (downloaded_date of new rows)
RunId == MaxTime

StagingPath == "/staging/new.pdf"
LibraryPath == "/library/old.pdf"

\* the candidates a worker may hand to add_paper: the worker has set
\* pdf_path to the downloaded file and downloaded_date to the run id
Papers == [title : Titles, abstract : Abstracts, source_url : PaperUrls, source : Sources,
           pdf_path : {StagingPath}, downloaded_date : {RunId}]

NoPaper == [title |-> <<>>, abstract |-> <<>>, source_url |-> NoUrl, source |-> "",
            pdf_path |-> "", downloaded_date |-> NULL]

-----------------------------------------------------------------------------
(* The papers table *)

\* SQL comparison `a = b`: never true when either side is NULL
SqlEq(a, b) == a # NULL /\ b # NULL /\ a = b

\* CREATE UNIQUE INDEX idx_paper_hash ON papers(paper_hash): no two rows hold
\* the same non-NULL paper_hash
UniqueIndexOK_NoIndex(store) == TRUE

UniqueIndexOK(store) ==
    \A r \in store : \A q \in store : r.id # q.id => ~SqlEq(r.paper_hash, q.paper_hash)

\* rows a store holds when a run starts.  A row is made of
\*   its text: a title that normalizes to "" (title_hash 0) or to "a"
\*     (title_hash NULL, as migration v4 computes it with generate_stable_hash);
\*   its provenance: sources, their URLs, and the paper_hash stored for the
\*     primary URL (NULL as computed by this code, an integer as stored by an
\*     earlier release, 0 for a row without URL);
\*   its age: synced into the library before the run, or staged by this run
\*     (the two ages alternate over the templates).
RowTexts == <<
    [title |-> <<"!">>, abstract |-> <<"a">>, title_hash |-> 0],
    [title |-> <<"!">>, abstract |-> <<>>,    title_hash |-> 0],
    [title |-> <<"a">>, abstract |-> <<"a">>, title_hash |-> NULL] >>

RowProvenances == <<
    [source |-> <<"arxiv">>,              source_url |-> <<UrlX>>,       paper_hash |-> NULL],
    [source |-> <<"arxiv", "lesswrong">>, source_url |-> <<UrlX, UrlY>>, paper_hash |-> 3],
    [source |-> <<"lesswrong">>,          source_url |-> <<UrlY>>,       paper_hash |-> 4],
    [source |-> <<"arxiv">>,              source_url |-> <<>>,           paper_hash |-> 0] >>

RowAges == <<
    [downloaded_date |-> 1,     pdf_path |-> LibraryPath, synced_to_cloud |-> TRUE],
    [downloaded_date |-> RunId, pdf_path |-> StagingPath, synced_to_cloud |-> FALSE] >>

TemplateIds == 0 .. (Len(RowTexts) * Len(RowProvenances) - 1)

MakeRow(id, k) ==
    LET text == RowTexts[(k % Len(RowTexts)) + 1]
        prov == RowProvenances[((k \div Len(RowTexts)) % Len(RowProvenances)) + 1]
        age  == RowAges[(k % Len(RowAges)) + 1]
    IN [id |-> id,
        paper_hash |-> prov.paper_hash, title_hash |-> text.title_hash,
        title |-> text.title, abstract |-> text.abstract,
        pdf_path |-> age.pdf_path, source_url |-> prov.source_url,
        downloaded_date |-> age.downloaded_date,
        synced_to_cloud |-> age.synced_to_cloud, source |-> prov.source]

\* the store made of the templates K, ids 1..n in template order
MakeStore(K) == {MakeRow(Cardinality({j \in K : j <= k}), k) : k \in K}

InitStores ==
    {s \in {MakeStore(K) : K \in {K \in SUBSET TemplateIds : Cardinality(K) <= MaxRows}} :
        UniqueIndexOK(s)}

Ids(store) == {r.id : r \in store}

RowById(store, id) == CHOOSE r \in store : r.id = id

\* cursor.fetchone() / the first candidate of the loop: rows come in rowid order
FirstById(rows) == CHOOSE r \in rows : \A q \in rows : r.id <= q.id

-----------------------------------------------------------------------------
(* StorageManager.add_paper and _merge_sources *)

\* primary_url is source_url itself for a URL without a comma; `if primary_url`
PaperHash(paper_data) ==
    IF paper_data.source_url # NoUrl
    THEN generate_stable_hash(normalize_url(paper_data.source_url) = NoUrl)
    ELSE 0

TitleHash(paper_data) == generate_stable_hash(normalize_text(paper_data.title) = <<>>)

\* SELECT ... FROM papers WHERE paper_hash = ?
SelectByPaperHash(store, p_hash) == {r \in store : SqlEq(r.paper_hash, p_hash)}

\* SELECT ... FROM papers WHERE title_hash = ?
SelectByTitleHash(store, t_hash) == {r \in store : SqlEq(r.title_hash, t_hash)}

\* the candidates the loop confirms by exact title and abstract similarity
ContentDuplicates(candidates, paper_data) ==
    {c \in candidates :
        /\ LowerText(paper_data.title) = LowerText(c.title)
        /\ is_content_similar(paper_data.abstract, c.abstract)}

IsUrl(u) == u # NoUrl

\* " ; ".join(list) read back as pieces: the join of [""] is the empty string
JoinUrls(list) == IF list = <<NoUrl>> THEN <<>> ELSE list

\* the columns _merge_sources writes for the fetched row: <<source, source_url>>,
\* or <<>> when it writes nothing
MergedColumns_AlwaysAppendUrl(existing_row, new_data) ==
    LET current_sources == existing_row.source
        new_source == new_data.source
        existing_url_list == SelectSeq(existing_row.source_url, IsUrl)
    IN  IF new_source # "" /\ new_source \notin Range(current_sources)
        THEN <<Append(current_sources, new_source),
               JoinUrls(Append(existing_url_list, new_data.source_url))>>
        ELSE <<>>

MergedColumns(existing_row, new_data) ==
    LET current_sources == existing_row.source
        new_source == new_data.source
        existing_url_list == SelectSeq(existing_row.source_url, IsUrl)
        normalized_existing == {normalize_url(u) : u \in Range(existing_url_list)}
        normalized_new == normalize_url(new_data.source_url)
        new_urls == IF normalized_new \notin normalized_existing
                    THEN JoinUrls(Append(existing_url_list, new_data.source_url))
                    ELSE existing_row.source_url
    IN  IF new_source # "" /\ new_source \notin Range(current_sources)
        THEN <<Append(current_sources, new_source), new_urls>>
        ELSE <<>>

\* UPDATE papers SET source = ?, source_url = ? WHERE id = ?
UpdateSources(store, id, cols) ==
    {IF r.id = id THEN [r EXCEPT !.source = cols[1], !.source_url = cols[2]] ELSE r : r \in store}

MergeReturn_ExistingId(existing_row) == existing_row.id

\* `return False`: "we didn't add a NEW paper, just updated an existing one"
MergeReturn(existing_row) == RetFalse

_merge_sources(store, existing_row, new_data) ==
    LET cols == MergedColumns(existing_row, new_data)
    IN  [store  |-> IF cols # <<>> THEN UpdateSources(store, existing_row.id, cols) ELSE store,
         ret    |-> MergeReturn(existing_row),
         merged |-> existing_row.id]

\* "3. If no duplicates, Insert New": building the VALUES tuple reads the name
\* `source`, which is bound neither in add_paper nor at module level; the
\* NameError is raised before the INSERT executes and is caught by
\* `except Exception`, which logs it and returns False.
InsertNew(store, paper_data, p_hash, t_hash) ==
    [store |-> store, ret |-> RetFalse, merged |-> 0]

add_paper(store, paper_data) ==
    LET p_hash == PaperHash(paper_data)
        t_hash == TitleHash(paper_data)
        existing == IF p_hash # 0 THEN SelectByPaperHash(store, p_hash) ELSE {}
        candidates == SelectByTitleHash(store, t_hash)
        duplicates == ContentDuplicates(candidates, paper_data)
    IN  IF existing # {} THEN _merge_sources(store, FirstById(existing), paper_data)
        ELSE IF duplicates # {} THEN _merge_sources(store, FirstById(duplicates), paper_data)
        ELSE InsertNew(store, paper_data, p_hash, t_hash)

-----------------------------------------------------------------------------
(* StorageManager.rollback_source *)

\* source = S OR source LIKE 'S, %' OR source LIKE '%, S' OR source LIKE '%, S, %'
LikeMatch(src, source) ==
    \/ src = <<source>>
    \/ Len(src) >= 2 /\ src[1] = source
    \/ Len(src) >= 2 /\ src[Len(src)] = source
    \/ \E i \in 2 .. (Len(src) - 1) : src[i] = source

\* list.remove(x): drops the first occurrence
RemoveFirst(s, x) ==
    LET i == CHOOSE i \in 1..Len(s) : s[i] = x /\ \A j \in 1..(i-1) : s[j] # x
    IN  SubSeq(s, 1, i - 1) \o SubSeq(s, i + 1, Len(s))

AtOrAfter_AnyDate(downloaded_date, start_time_str) == TRUE

\* downloaded_date >= ?  (a comparison with NULL selects no row)
AtOrAfter(downloaded_date, start_time_str) ==
    /\ downloaded_date # NULL
    /\ start_time_str # NULL
    /\ downloaded_date >= start_time_str

rollback_source(store, source, start_time_str) ==
    LET rows == {r \in store :
                    /\ LikeMatch(r.source, source)
                    /\ AtOrAfter(r.downloaded_date, start_time_str)}
        deleted == {r \in rows : source \in Range(r.source) /\ Len(r.source) = 1}
        kept    == {r \in rows : source \in Range(r.source) /\ Len(r.source) > 1}
    IN  [store |-> {IF r \in kept THEN [r EXCEPT !.source = RemoveFirst(r.source, source)] ELSE r :
                        r \in store \ deleted},
         paths |-> {r.pdf_path : r \in deleted} \ {""},
         internal_ids |-> {r.id : r \in deleted}]

-----------------------------------------------------------------------------
(* One run of the GUI controller: Spec *)

DbFiles == {"prod", "working"}

\* worker.py: StorageManager(config.get("db_path", ...)) -- the configured
\* production path; the working copy's path is never handed to the worker
WorkerDbPath == "prod"

\* supervisor.py: StorageManager(self.config.get("db_path", ...))
SupervisorDbPath == "prod"

NoOp == [op |-> "none", path |-> "", paper |-> NoPaper, source |-> "", time |-> 0,
         pre |-> {}, ret |-> RetFalse, merged |-> 0, paths |-> {}, ids |-> {}]

Workers == {1, 2}

WorkerSource == <<"arxiv", "lesswrong">>

NoRow == MakeRow(0, 0)

IdleCur == [paper |-> NoPaper, existing |-> NoRow]

ConcIdle ==
    /\ cstore = {}
    /\ pc = [w \in Workers |-> "off"]
    /\ cur = [w \in Workers |-> IdleCur]
    /\ cret = [w \in Workers |-> RetFalse]

CommIdle ==
    /\ comm = [a |-> NoPaper, b |-> NoPaper, start |-> {}]
    /\ storeAB = {}
    /\ storeBA = {}
    /\ commStep = 0

UndoIdle == undo = [start |-> {}, paper |-> NoPaper, time |-> 0, store |-> {}, step |-> 0]

\* the adapter the Supervisor runs (display name)
SupNames == {"ArXiv"}

SupIdle ==
    sup = [ui |-> "off", loop |-> "off", is_running |-> FALSE, run_id |-> 0,
           workers |-> [n \in SupNames |-> [process |-> "dead", pc |-> "init", retries |-> 0,
                                            run_id |-> NULL, last_heartbeat |-> "fresh",
                                            downloads |-> 0]],
           bus |-> <<>>, sdb |-> {}, files |-> {},
           started |-> [n \in SupNames |-> 0], haltedAt |-> [n \in SupNames |-> 0],
           handle |-> [source |-> "", run_id |-> 0, pre |-> {}, paths |-> {}, ids |-> {},
                       disk_pre |-> {}, disk |-> {}],
           timedOut |-> {}, errors |-> 0, handled |-> 0]

RetryIdle ==
    retry = [start |-> {}, run_id |-> 0, papers |-> <<>>, failAt |-> 0,
             direct |-> {}, retried |-> {}, step |-> 0]

CommitIdle ==
    commit = [phase |-> "off", result |-> "none", staging |-> {}, library |-> {}, copied |-> {},
              working |-> {}, prod |-> {}, staging0 |-> {}, library0 |-> {}, prod0 |-> {},
              asked |-> {}, cancelled |-> FALSE, visited |-> {}, moved |-> {}, moveFailed |-> {}]

ExtIdle == UndoIdle /\ SupIdle /\ RetryIdle /\ CommitIdle

StartIdle ==
    ctl = [ui |-> "off", prompt |-> <<>>, phase |-> "off", reported |-> {}, constructed |-> FALSE,
           workers |-> [n \in SupNames |-> "none"], errors |-> {}]

NoQuery == [groups |-> <<>>, excluded |-> <<>>, spaced |-> TRUE]

NoMeasures ==
    [word_count |-> 0, url_patterns |-> 0, list_indicators |-> 0, research_indicator_count |-> 0,
     marketing_count |-> 0, title_keyword |-> FALSE, product_title |-> FALSE]

FilterIdle ==
    flt = [phase |-> "off", query |-> NoQuery, prompt |-> <<>>,
           paper |-> [title |-> <<>>, abstract |-> <<>>, m |-> NoMeasures],
           raised |-> FALSE, required_groups |-> <<>>, excluded_terms |-> <<>>,
           relevant |-> FALSE, aggregator |-> FALSE]

NoFile == [papers |-> "none", schema_version |-> FALSE, versions |-> {}, rows |-> {}]

SchemaIdle ==
    mig = [phase |-> "off", start |-> NoFile, file |-> NoFile, opens |-> 0, raised |-> FALSE,
           applied |-> <<>>, reapplied |-> <<>>, opened_rows |-> {}, wrote |-> "none"]

WorkerIdle ==
    wrk = [phase |-> "off", mode |-> "", max_papers_per_agent |-> 0, results |-> <<>>,
           kept |-> <<>>, papers_to_download |-> <<>>, i |-> 0,
           downloaded_count |-> 0, duplicate_count |-> 0,
           store |-> {}, store0 |-> {}, library |-> {}, files |-> {},
           found |-> NULL, status |-> "", download_calls |-> <<>>, add_paper_calls |-> <<>>,
           duplicates |-> {}]

StopIdle == stp = [stop_event |-> FALSE, restarted |-> {}, emitted |-> {}]

UrlIdle == nu = [phase |-> "off", u |-> <<>>, v |-> <<>>, once |-> <<>>, twice |-> <<>>, other |-> <<>>]

DownloadIdle == dl = [phase |-> "off", papers |-> <<>>, i |-> 0, disk |-> {}, returned |-> <<>>]

NamesIdle ==
    reg = [phase |-> "off", display_name |-> "", written |-> "", run_id |-> 0, store |-> {},
           store0 |-> {}, msg |-> <<>>, rolled |-> "", deleted |-> {}]

BeatIdle ==
    hb = [ui |-> "off", now |-> 0, last_heartbeat |-> 0, last_put |-> 0, bus |-> <<>>,
          process |-> "dead", terminated |-> FALSE]

ProcsIdle == pr = [procs |-> <<>>, registered |-> 0, retries |-> 0, declined |-> 0]

GrammarIdle == gq = [phase |-> "off", query |-> <<>>, text |-> <<>>, errors |-> {}]

LastIdle ==
    StopIdle /\ UrlIdle /\ DownloadIdle /\ NamesIdle /\ BeatIdle /\ ProcsIdle /\ GrammarIdle

LateIdle == StartIdle /\ FilterIdle /\ SchemaIdle /\ WorkerIdle /\ LastIdle

RunIdle ==
    /\ db = [f \in DbFiles |-> {}]
    /\ phase = "off"
    /\ last = NoOp
    /\ ops = 0

Init ==
    /\ \E s \in InitStores : db = [f \in DbFiles |-> IF f = "prod" THEN s ELSE {}]
    /\ phase = "idle"
    /\ last = NoOp
    /\ ops = 0
    /\ ConcIdle
    /\ CommIdle
    /\ ExtIdle
    /\ LateIdle

\* AgentGUI._start_agent_unsafe, "DATABASE SAFETY LOGIC": copy the production
\* file to a working file, open both, then build the Supervisor and start
\* the workers
StartAgent ==
    /\ phase = "idle"
    /\ db' = [db EXCEPT !["working"] = db["prod"]]
    /\ phase' = "running"
    /\ last' = NoOp
    /\ UNCHANGED <<ops, cstore, pc, cur, cret, comm, storeAB, storeBA, commStep, extVars, lateVars>>

\* run_worker: storage.add_paper(paper) after a download
WorkerAddPaper(paper) ==
    /\ phase = "running"
    /\ ops < MaxOps
    /\ ops' = ops + 1
    /\ LET res == add_paper(db[WorkerDbPath], paper)
       IN  /\ db' = [db EXCEPT ![WorkerDbPath] = res.store]
           /\ last' = [NoOp EXCEPT !.op = "add", !.path = WorkerDbPath, !.paper = paper,
                                   !.pre = db[WorkerDbPath], !.ret = res.ret,
                                   !.merged = res.merged]
    /\ UNCHANGED <<phase, cstore, pc, cur, cret, comm, storeAB, storeBA, commStep, extVars, lateVars>>

\* Supervisor.handle_error, "2. Rollback": self.storage.rollback_source(name, run_id)
SupervisorRollback(source, start_time) ==
    /\ phase = "running"
    /\ ops < MaxOps
    /\ ops' = ops + 1
    /\ LET res == rollback_source(db[SupervisorDbPath], source, start_time)
       IN  /\ db' = [db EXCEPT ![SupervisorDbPath] = res.store]
           /\ last' = [NoOp EXCEPT !.op = "rollback", !.path = SupervisorDbPath,
                                   !.source = source, !.time = start_time,
                                   !.pre = db[SupervisorDbPath],
                                   !.paths = res.paths, !.ids = res.internal_ids]
    /\ UNCHANGED <<phase, cstore, pc, cur, cret, comm, storeAB, storeBA, commStep, extVars, lateVars>>

\* AgentGUI.check_queue: no worker is alive any more, the run is over
RunFinished ==
    /\ phase = "running"
    /\ phase' = "finished"
    /\ UNCHANGED <<db, last, ops, cstore, pc, cur, cret, comm, storeAB, storeBA, commStep, extVars, lateVars>>

Next ==
    \/ StartAgent
    \/ \E paper \in Papers : WorkerAddPaper(paper)
    \/ \E source \in Sources, t \in Times : SupervisorRollback(source, t)
    \/ RunFinished

Spec == Init /\ [][Next]_vars

-----------------------------------------------------------------------------
(* Properties of one run (Spec) *)

Stores == {db["prod"], db["working"], cstore, storeAB, storeBA}

\* the store the last operation wrote to, as it is now
LastPost == db[last.path]

NormalizedSet(urls) == {normalize_url(u) : u \in Range(SelectSeq(urls, IsUrl))}

\* the row and the paper are the same paper by title and abstract: titles equal
\* ignoring case, normalized abstract prefixes equal (empty abstracts included)
SameContent(row, paper) ==
    /\ LowerText(row.title) = LowerText(paper.title)
    /\ Prefix(normalize_text(row.abstract), SimilarityPrefix)
         = Prefix(normalize_text(paper.abstract), SimilarityPrefix)

\* the paper's URL hash is non-zero and a row of the store carries it
UrlHashInStore(store, paper) ==
    PaperHash(paper) # 0 /\ \E r \in store : r.paper_hash = PaperHash(paper)

\* C1: from the start of a run until commit begins no operation of the run
\* writes to the production store; every write goes to the working copy.
C1_ProductionUntouched ==
    [][phase = "running" => db'["prod"] = db["prod"]]_vars

C3_InsertsNewRow ==
    (/\ last.op = "add"
     /\ ~UrlHashInStore(last.pre, last.paper)
     /\ \A r \in last.pre : ~SameContent(r, last.paper))
    => /\ last.pre \subseteq LastPost
       /\ Cardinality(LastPost) = Cardinality(last.pre) + 1
       /\ \E r \in LastPost \ last.pre :
             /\ r.source = <<last.paper.source>>
             /\ r.paper_hash = PaperHash(last.paper)
             /\ r.title_hash = TitleHash(last.paper)
             /\ r.synced_to_cloud = FALSE
             /\ last.ret = r.id

MergeFrame(old, new) ==
    /\ LastPost \ {new} = last.pre \ {old}
    /\ new = [old EXCEPT !.source = new.source, !.source_url = new.source_url]
    /\ new.source = IF last.paper.source \in Range(old.source)
                    THEN old.source
                    ELSE Append(old.source, last.paper.source)

\* the non-empty URLs of the row after the merge, given whether the new URL
\* was to be appended
UrlsAfter(old, appended) ==
    SelectSeq(old.source_url, IsUrl)
        \o (IF appended /\ last.paper.source_url # NoUrl THEN <<last.paper.source_url>> ELSE <<>>)

C7_ParallelLists ==
    \A store \in Stores : \A r \in store :
        (r.source # <<>> /\ r.source_url # <<>>) => Len(r.source) = Len(r.source_url)

\* C8: add_paper with a paper whose URL hash is not in the store but whose
\* title equals a row's title case-insensitively and whose normalized
\* abstract prefix equals that row's (empty abstracts included) merges into
\* such a row and adds no row.
C8_MergesByContent ==
    (/\ last.op = "add"
     /\ ~UrlHashInStore(last.pre, last.paper)
     /\ \E r \in last.pre : SameContent(r, last.paper))
    => /\ Ids(LastPost) = Ids(last.pre)
       /\ \E r \in last.pre :
             /\ SameContent(r, last.paper)
             /\ last.merged = r.id
             /\ last.paper.source \in Range(RowById(LastPost, r.id).source)

\* position of the first occurrence of x in s (0 if absent)
IndexOf(s, x) ==
    IF x \in Range(s) THEN CHOOSE i \in 1..Len(s) : s[i] = x /\ \A j \in 1..(i-1) : s[j] # x ELSE 0

RemoveAt(s, i) == IF i \in 1..Len(s) THEN SubSeq(s, 1, i - 1) \o SubSeq(s, i + 1, Len(s)) ELSE s

\* C10: rollback_source(S, t) deletes exactly the rows whose only source is S
\* and whose downloaded_date is at or after t and returns their pdf_paths; a
\* matching row that lists S with other sources stays and loses S from source
\* and S's URL from source_url; every other row is unchanged.
C10_RollbackEffect ==
    (last.op = "rollback")
    => LET S == last.source
           matching == {r \in last.pre : S \in Range(r.source) /\ r.downloaded_date >= last.time}
           solo == {r \in matching : r.source = <<S>>}
           shared == matching \ solo
       IN  /\ last.ids = Ids(solo)
           /\ last.paths = {r.pdf_path : r \in solo}
           /\ LastPost = (last.pre \ matching)
                \cup {[r EXCEPT !.source = RemoveAt(r.source, IndexOf(r.source, S)),
                                !.source_url = RemoveAt(r.source_url, IndexOf(r.source, S))] :
                        r \in shared}

-----------------------------------------------------------------------------
(* Two worker processes inside add_paper on one store: SpecConc *)
(* Each worker has its own sqlite3 connection; a SELECT runs outside any   *)
(* transaction and the UPDATE commits on its own, so the statements of two *)
(* calls interleave.                                                       *)

\* the normalized URL both workers' papers share
ConcUrl == UrlX

ConcPapers(w) ==
    [title : Titles, abstract : Abstracts, source_url : {UrlTracked, UrlX},
     source : {WorkerSource[w]}, pdf_path : {StagingPath}, downloaded_date : {RunId}]

\* stores that hold no row for the shared URL
ConcStores == {s \in InitStores : \A r \in s : ConcUrl \notin NormalizedSet(r.source_url)}

InitConc ==
    /\ cstore \in ConcStores
    /\ pc = [w \in Workers |-> "idle"]
    /\ cur = [w \in Workers |-> IdleCur]
    /\ cret = [w \in Workers |-> RetFalse]
    /\ RunIdle
    /\ CommIdle
    /\ ExtIdle
    /\ LateIdle

ConcFrame == UNCHANGED <<db, phase, last, ops, comm, storeAB, storeBA, commStep, extVars, lateVars>>

\* run_worker calls storage.add_paper(paper)
ConcCall(w, paper) ==
    /\ pc[w] = "idle"
    /\ cur' = [cur EXCEPT ![w] = [paper |-> paper, existing |-> NoRow]]
    /\ pc' = [pc EXCEPT ![w] = "select_url"]
    /\ UNCHANGED <<cstore, cret>>
    /\ ConcFrame

\* "2. Check for Exact Match via URL Hash": the SELECT by paper_hash
ConcSelectByUrl(w) ==
    /\ pc[w] = "select_url"
    /\ LET p_hash == PaperHash(cur[w].paper)
           existing == IF p_hash # 0 THEN SelectByPaperHash(cstore, p_hash) ELSE {}
       IN  IF existing # {}
           THEN /\ cur' = [cur EXCEPT ![w].existing = FirstById(existing)]
                /\ pc' = [pc EXCEPT ![w] = "merge"]
           ELSE /\ cur' = cur
                /\ pc' = [pc EXCEPT ![w] = "select_title"]
    /\ UNCHANGED <<cstore, cret>>
    /\ ConcFrame

\* "4. Check for Content Duplicate": the SELECT by title_hash and the loop
\* over the fetched candidates
ConcSelectByTitle(w) ==
    /\ pc[w] = "select_title"
    /\ LET candidates == SelectByTitleHash(cstore, TitleHash(cur[w].paper))
           duplicates == ContentDuplicates(candidates, cur[w].paper)
       IN  IF duplicates # {}
           THEN /\ cur' = [cur EXCEPT ![w].existing = FirstById(duplicates)]
                /\ pc' = [pc EXCEPT ![w] = "merge"]
           ELSE /\ cur' = cur
                /\ pc' = [pc EXCEPT ![w] = "insert"]
    /\ UNCHANGED <<cstore, cret>>
    /\ ConcFrame

\* _merge_sources on the row as it was fetched: UPDATE ... WHERE id = ?, commit
ConcMerge(w) ==
    /\ pc[w] = "merge"
    /\ cstore' = _merge_sources(cstore, cur[w].existing, cur[w].paper).store
    /\ cret' = [cret EXCEPT ![w] = MergeReturn(cur[w].existing)]
    /\ pc' = [pc EXCEPT ![w] = "done"]
    /\ UNCHANGED cur
    /\ ConcFrame

\* "3. If no duplicates, Insert New"
ConcInsert(w) ==
    /\ pc[w] = "insert"
    /\ LET res == InsertNew(cstore, cur[w].paper, PaperHash(cur[w].paper), TitleHash(cur[w].paper))
       IN  /\ cstore' = res.store
           /\ cret' = [cret EXCEPT ![w] = res.ret]
    /\ pc' = [pc EXCEPT ![w] = "done"]
    /\ UNCHANGED cur
    /\ ConcFrame

NextConc ==
    \E w \in Workers :
        \/ \E paper \in ConcPapers(w) : ConcCall(w, paper)
        \/ ConcSelectByUrl(w)
        \/ ConcSelectByTitle(w)
        \/ ConcMerge(w)
        \/ ConcInsert(w)

SpecConc == InitConc /\ [][NextConc]_vars

\* C5: two workers call add_paper concurrently for papers with the same
\* normalized URL and different source names; in every interleaving exactly
\* one row for that URL results and its source lists both adapters.
C5_OneRowBothSources ==
    (\A w \in Workers : pc[w] = "done")
    => \E r \in cstore :
          /\ {q \in cstore : ConcUrl \in NormalizedSet(q.source_url)} = {r}
          /\ \A w \in Workers : WorkerSource[w] \in Range(r.source)

-----------------------------------------------------------------------------
(* add(A); add(B) against add(B); add(A): SpecComm *)

\* A and B are duplicates of each other: the same non-empty normalized URL,
\* or equal titles (ignoring case) and equal normalized abstract prefixes
AreDuplicates(A, B) ==
    \/ A.source_url # NoUrl /\ normalize_url(A.source_url) = normalize_url(B.source_url)
    \/ /\ LowerText(A.title) = LowerText(B.title)
       /\ Prefix(normalize_text(A.abstract), SimilarityPrefix)
            = Prefix(normalize_text(B.abstract), SimilarityPrefix)

CommPairs ==
    {pair \in Papers \X Papers :
        /\ pair[1].source = "arxiv"
        /\ pair[2].source = "lesswrong"
        /\ AreDuplicates(pair[1], pair[2])}

\* the row is a duplicate of the paper by URL or by content
RowDuplicates(r, paper) ==
    \/ paper.source_url # NoUrl /\ normalize_url(paper.source_url) \in NormalizedSet(r.source_url)
    \/ SameContent(r, paper)

InitComm ==
    /\ \E pair \in CommPairs : \E s \in InitStores :
          /\ \A r \in s : ~RowDuplicates(r, pair[1]) /\ ~RowDuplicates(r, pair[2])
          /\ comm = [a |-> pair[1], b |-> pair[2], start |-> s]
          /\ storeAB = s
          /\ storeBA = s
    /\ commStep = 0
    /\ RunIdle
    /\ ConcIdle
    /\ ExtIdle
    /\ LateIdle

CommFrame == UNCHANGED <<db, phase, last, ops, cstore, pc, cur, cret, comm, extVars, lateVars>>

\* the first call on each store: add_paper(A) on one, add_paper(B) on the other
CommAddFirst ==
    /\ commStep = 0
    /\ storeAB' = add_paper(storeAB, comm.a).store
    /\ storeBA' = add_paper(storeBA, comm.b).store
    /\ commStep' = 1
    /\ CommFrame

\* the second call on each store: add_paper(B) after A, add_paper(A) after B
CommAddSecond ==
    /\ commStep = 1
    /\ storeAB' = add_paper(storeAB, comm.b).store
    /\ storeBA' = add_paper(storeBA, comm.a).store
    /\ commStep' = 2
    /\ CommFrame

NextComm == CommAddFirst \/ CommAddSecond

SpecComm == InitComm /\ [][NextComm]_vars

\* C9: for duplicates A and B, add(A); add(B) and add(B); add(A) both leave
\* one row, with the same set of source names and the same set of URLs.
C9_MergeCommutes ==
    (commStep = 2)
    => \E rAB \in storeAB : \E rBA \in storeBA :
          /\ storeAB \ comm.start = {rAB}
          /\ storeBA \ comm.start = {rBA}
          /\ Range(rAB.source) = Range(rBA.source)
          /\ NormalizedSet(rAB.source_url) = NormalizedSet(rBA.source_url)

-----------------------------------------------------------------------------
(* A source adds a paper and is then rolled back: SpecUndo *)

InitUndo ==
    /\ \E s \in InitStores : \E paper \in Papers : \E t \in Times :
          /\ t <= paper.downloaded_date
          /\ undo = [start |-> s, paper |-> paper, time |-> t, store |-> s, step |-> 0]
    /\ RunIdle
    /\ ConcIdle
    /\ CommIdle
    /\ SupIdle
    /\ RetryIdle
    /\ CommitIdle
    /\ LateIdle

UndoFrame == UNCHANGED <<db, phase, last, ops, cstore, pc, cur, cret, comm, storeAB, storeBA, commStep, sup, retry, commit, lateVars>>

\* run_worker: storage.add_paper(paper), the paper stamped with the run id
UndoAdd ==
    /\ undo.step = 0
    /\ undo' = [undo EXCEPT !.store = add_paper(undo.store, undo.paper).store, !.step = 1]
    /\ UndoFrame

\* Supervisor.handle_error: self.storage.rollback_source(source, run_id)
UndoRollback ==
    /\ undo.step = 1
    /\ undo' = [undo EXCEPT !.store = rollback_source(undo.store, undo.paper.source, undo.time).store,
                            !.step = 2]
    /\ UndoFrame

NextUndo == UndoAdd \/ UndoRollback

SpecUndo == InitUndo /\ [][NextUndo]_vars

\* C11: if source S adds or merges a candidate at or after t and
\* rollback_source(S, t) is then called, the store equals the store in which
\* S had added nothing (S had contributed nothing at or after t before the
\* call): rows S alone created are gone, rows S was merged into no longer
\* list S.
C11_RollbackUndoesAdd ==
    (/\ undo.step = 2
     /\ rollback_source(undo.start, undo.paper.source, undo.time).store = undo.start)
    => undo.store = undo.start

-----------------------------------------------------------------------------
(* The Supervisor, its worker processes and the controller loop: SpecSup   *)
(*                                                                         *)
(* sup.workers is Supervisor.workers together with the position of each    *)
(* worker process; sup.bus is task_queue, oldest message first; sup.sdb is *)
(* the store at db_path, which the Supervisor and every worker open;       *)
(* sup.files is the set of files on disk.  Of a message only the fields a  *)
(* handler reads are kept.  Time is not counted: `now - last_heartbeat >   *)
(* worker_timeout` is the heartbeat being "stale".  sup.started,           *)
(* sup.haltedAt, sup.handle, sup.timedOut, sup.errors and sup.handled      *)
(* record what has happened: processes started, HALTED emitted, the last   *)
(* handle_error call, the workers the last check_timeouts terminated, the  *)
(* ERROR messages put and the ERROR messages passed to handle_error.       *)

\* retry_settings.get('max_worker_retries', 2)
max_retries == 2

\* source.lower().replace(" ", "")
NormalizedName(display_name) ==
    CASE display_name = "ArXiv" -> "arxiv"
      [] display_name = "LessWrong" -> "lesswrong"
      [] display_name = "AI Labs" -> "ailabs"
      [] display_name = "OpenReview" -> "openreview"
      [] display_name = "ACL Anthology" -> "aclanthology"
      [] display_name = "AAAI" -> "aaai"
      [] OTHER -> display_name

\* the order of Supervisor.workers (insertion order of the dict)
NameOrder == <<"ArXiv">>

\* the file searcher.download(paper) writes
DownloadPath(display_name) ==
    CASE display_name = "ArXiv" -> "/papers/arxiv/new.pdf"
      [] display_name = "LessWrong" -> "/papers/lesswrong/new.pdf"
      [] OTHER -> ""

\* the paper a worker downloads and hands to add_paper
SupPaper(display_name, run_id) ==
    [title |-> <<"!">>, abstract |-> <<"A", "!">>, source_url |-> UrlY,
     source |-> NormalizedName(display_name), pdf_path |-> DownloadPath(display_name),
     downloaded_date |-> run_id]

UpdateRow(source, status) == [type |-> "UPDATE_ROW", source |-> source, status |-> status, run_id |-> NULL]
LogMsg == [type |-> "LOG", source |-> "", status |-> "", run_id |-> NULL]
ProgressMsg(source) == [type |-> "PROGRESS_UPDATE", source |-> source, status |-> "", run_id |-> NULL]
ErrorMsg(source, run_id) == [type |-> "ERROR", source |-> source, status |-> "", run_id |-> run_id]
DoneMsg == [type |-> "DONE", source |-> "", status |-> "", run_id |-> NULL]

\* task_queue.put, once per message
Put(s, msgs) == [s EXCEPT !.bus = @ \o msgs]

\* Supervisor.is_any_alive
is_any_alive(s) == \E n \in SupNames : s.workers[n].process = "alive"

\* Supervisor.start_worker
start_worker(s, display_name) ==
    IF s.workers[display_name].process = "alive"
    THEN s
    ELSE [s EXCEPT !.workers[display_name].process = "alive",
                   !.workers[display_name].pc = "init",
                   !.workers[display_name].downloads = 0,
                   !.workers[display_name].last_heartbeat = "fresh",
                   !.started[display_name] = @ + 1]

\* the keys of the dict rollback_source returns
RollbackResultKeys == {"paths", "internal_ids", "source"}

\* os.path.abspath(path).startswith(os.path.abspath(cloud_dir))
IsUnderLibrary(path) == path = LibraryPath

\* files of the source's directory written since the run started
Orphans(disk, display_name) == {f \in disk : f = DownloadPath(display_name)}

FilesAfterCleanup_DeleteReturned(disk, paths, orphans) == disk \ paths

\* handle_error, "2. Rollback", after rollback_source has returned: reading
\* rollback_result['paper_ids'] raises KeyError, which the enclosing
\* `except Exception` catches, so neither loop that removes files runs
FilesAfterCleanup(disk, paths, orphans) ==
    IF "paper_ids" \in RollbackResultKeys
    THEN disk \ ({p \in paths : ~IsUnderLibrary(p)} \cup {f \in orphans : ~IsUnderLibrary(f)})
    ELSE disk

CanRetry_Always(retries) == TRUE

\* worker_info['retries'] < self.max_retries
CanRetry(retries) == retries < max_retries

\* Supervisor.handle_error
handle_error(s, msg) ==
    LET source == msg.source
        s1 == Put(s, <<UpdateRow(source, "FAILED"), LogMsg, LogMsg>>)
        res == rollback_source(s1.sdb, NormalizedName(source), msg.run_id)
        disk == FilesAfterCleanup(s1.files, res.paths, Orphans(s1.files, source))
        s2 == [s1 EXCEPT !.sdb = res.store, !.files = disk, !.handled = @ + 1,
                         !.handle = [source |-> source, run_id |-> msg.run_id, pre |-> s.sdb,
                                     paths |-> res.paths, ids |-> res.internal_ids,
                                     disk_pre |-> s.files, disk |-> disk]]
        s3 == Put(s2, <<LogMsg, LogMsg>>)
    IN  IF source \notin SupNames THEN s
        ELSE IF CanRetry(s3.workers[source].retries)
        THEN start_worker(
                Put([s3 EXCEPT !.workers[source].retries = @ + 1],
                    <<LogMsg, UpdateRow(source, "Retrying")>>),
                source)
        ELSE [Put(s3, <<LogMsg, UpdateRow(source, "HALTED")>>)
                EXCEPT !.haltedAt[source] = s3.started[source]]

\* check_timeouts, one pass of its loop body
TimeoutOne(s, display_name) ==
    IF /\ s.workers[display_name].process = "alive"
       /\ s.workers[display_name].last_heartbeat = "stale"
    THEN [Put(s, <<ErrorMsg(display_name, s.workers[display_name].run_id)>>)
            EXCEPT !.workers[display_name].process = "dead",
                   !.errors = @ + 1,
                   !.timedOut = @ \cup {display_name}]
    ELSE s

RECURSIVE TimeoutFrom(_, _)
TimeoutFrom(s, i) ==
    IF i > Len(NameOrder) THEN s ELSE TimeoutFrom(TimeoutOne(s, NameOrder[i]), i + 1)

\* Supervisor.check_timeouts
check_timeouts(s) == TimeoutFrom([s EXCEPT !.timedOut = {}], 1)

\* the branch of the controller loop for one message
Dispatch(s, msg) ==
    CASE msg.type = "UPDATE_ROW" ->
            IF msg.source \in SupNames
            THEN [s EXCEPT !.workers[msg.source].last_heartbeat = "fresh"]
            ELSE s
      [] msg.type = "ERROR" -> handle_error(s, msg)
      [] msg.type = "DONE" /\ s.ui = "gui" -> [s EXCEPT !.is_running = FALSE]
      [] OTHER -> s

\* task_queue.get: the oldest message, if there is one
GetAndDispatch(s) ==
    IF s.bus = <<>> THEN s ELSE Dispatch([s EXCEPT !.bus = Tail(@)], Head(s.bus))

\* stores the Supervisor starts on: at most one row
SupStores == {st \in InitStores : Cardinality(st) <= 1}

\* after Supervisor(...) and start_worker for every adapter.  The run id is
\* datetime.now() in local time, which is not monotonic: a stored row can carry
\* a downloaded_date at or after it.
InitSup ==
    /\ \E st \in SupStores : \E ui \in {"main", "gui"} : \E run_id \in Times :
          sup = [ui |-> ui, loop |-> "running", is_running |-> TRUE, run_id |-> run_id,
                 workers |-> [n \in SupNames |-> [process |-> "alive", pc |-> "init", retries |-> 0,
                                                  run_id |-> NULL, last_heartbeat |-> "fresh",
                                                  downloads |-> 0]],
                 bus |-> <<>>, sdb |-> st, files |-> {r.pdf_path : r \in st},
                 started |-> [n \in SupNames |-> 1], haltedAt |-> [n \in SupNames |-> 0],
                 handle |-> [source |-> "", run_id |-> 0, pre |-> {}, paths |-> {}, ids |-> {},
                             disk_pre |-> {}, disk |-> {}],
                 timedOut |-> {}, errors |-> 0, handled |-> 0]
    /\ RunIdle
    /\ ConcIdle
    /\ CommIdle
    /\ UndoIdle
    /\ RetryIdle
    /\ CommitIdle
    /\ LateIdle

SupFrame == UNCHANGED <<db, phase, last, ops, cstore, pc, cur, cret, comm, storeAB, storeBA, commStep, undo, retry, commit, lateVars>>

\* run_worker up to the search: "Running..." and "Searching..."
WorkerBegin(n) ==
    /\ sup.workers[n].process = "alive"
    /\ sup.workers[n].pc = "init"
    /\ sup' = [Put(sup, <<[UpdateRow(n, "Running...") EXCEPT !.run_id = sup.run_id],
                          UpdateRow(n, "Searching...")>>)
                 EXCEPT !.workers[n].pc = "loop"]
    /\ SupFrame

\* run_worker, one pass of the download loop
WorkerDownload(n) ==
    /\ sup.workers[n].process = "alive"
    /\ sup.workers[n].pc = "loop"
    /\ sup.workers[n].downloads < MaxDownloads
    /\ LET paper == SupPaper(n, sup.run_id)
       IN  sup' = [Put(sup, <<UpdateRow(n, "Downloading"), ProgressMsg(n)>>)
                     EXCEPT !.files = @ \cup {paper.pdf_path},
                            !.sdb = add_paper(@, paper).store,
                            !.workers[n].downloads = @ + 1]
    /\ SupFrame

\* run_worker, `except Exception`: the ERROR is put and the process ends
WorkerFail(n) ==
    /\ sup.workers[n].process = "alive"
    /\ sup' = [Put(sup, <<ErrorMsg(n, sup.run_id)>>)
                 EXCEPT !.workers[n].process = "dead", !.errors = @ + 1]
    /\ SupFrame

\* run_worker, "Complete": the final messages are put and the process ends
WorkerComplete(n) ==
    /\ sup.workers[n].process = "alive"
    /\ sup.workers[n].pc = "loop"
    /\ sup' = [Put(sup, <<ProgressMsg(n), UpdateRow(n, "Complete"), LogMsg>>)
                 EXCEPT !.workers[n].process = "dead"]
    /\ SupFrame

\* worker_timeout seconds pass without a heartbeat of the worker being recorded
HeartbeatExpires(n) ==
    /\ sup.workers[n].process = "alive"
    /\ sup.workers[n].last_heartbeat = "fresh"
    /\ sup' = [sup EXCEPT !.workers[n].last_heartbeat = "stale"]
    /\ SupFrame

\* main: one pass of `while supervisor.is_any_alive()`
MainLoopPass ==
    /\ sup.ui = "main"
    /\ sup.loop = "running"
    /\ is_any_alive(sup)
    /\ sup' = check_timeouts(GetAndDispatch(sup))
    /\ SupFrame

\* main: the loop condition is false, "All workers completed."
MainLoopEnd ==
    /\ sup.ui = "main"
    /\ sup.loop = "running"
    /\ ~is_any_alive(sup)
    /\ sup' = [sup EXCEPT !.loop = "ended", !.is_running = FALSE]
    /\ SupFrame

\* AgentGUI.process_queue: one tick
ProcessQueue ==
    /\ sup.ui = "gui"
    /\ LET s1 == check_timeouts(GetAndDispatch(sup))
       IN  sup' = IF ~is_any_alive(s1) /\ s1.is_running
                  THEN Put([s1 EXCEPT !.is_running = FALSE], <<DoneMsg>>)
                  ELSE s1
    /\ SupFrame

NextSup ==
    \/ \E n \in SupNames : WorkerBegin(n)
    \/ \E n \in SupNames : WorkerDownload(n)
    \/ \E n \in SupNames : WorkerFail(n)
    \/ \E n \in SupNames : WorkerComplete(n)
    \/ \E n \in SupNames : HeartbeatExpires(n)
    \/ MainLoopPass
    \/ MainLoopEnd
    \/ ProcessQueue

SpecSup == InitSup /\ [][NextSup]_vars

\* the controller loop keeps running while it can
SpecSupFair ==
    SpecSup /\ WF_vars(MainLoopPass) /\ WF_vars(MainLoopEnd) /\ WF_vars(ProcessQueue)

-----------------------------------------------------------------------------
(* Properties of the Supervisor (SpecSup) *)

\* handle_error has processed an ERROR
Handled == sup.handle.source # ""

\* C12: after handle_error has processed an ERROR for source S, no file
\* created by the failed attempt remains: every file of a row the rollback
\* deleted, and every file the attempt downloaded, has been removed from
\* disk, unless it lies under the library root.
C12_FilesOfFailedAttemptRemoved ==
    Handled =>
        \A f \in sup.handle.paths \cup Orphans(sup.handle.disk_pre, sup.handle.source) :
            ~IsUnderLibrary(f) => f \notin sup.handle.disk

\* C13: no execution of handle_error deletes a file that lies under the
\* library root.
C13_LibraryFilesKept ==
    Handled => \A f \in sup.handle.disk_pre : IsUnderLibrary(f) => f \in sup.handle.disk

\* handle_error has run with a file under the library root on disk that
\* rollback_source returned as the file of a deleted row
C13_Witness ==
    /\ Handled
    /\ \E f \in sup.handle.paths : IsUnderLibrary(f) /\ f \in sup.handle.disk_pre

\* C14: retries never exceeds max_retries and at most 1 + max_retries worker
\* processes are started for a source; an ERROR that arrives while retries
\* equals max_retries makes the supervisor emit HALTED and start no worker,
\* and none is started afterwards.
C14_RetriesBounded ==
    /\ [](\A n \in SupNames :
            /\ sup.workers[n].retries <= max_retries
            /\ sup.started[n] <= 1 + max_retries
            /\ sup.haltedAt[n] # 0 => sup.started[n] = sup.haltedAt[n])
    /\ [][\A n \in SupNames :
            (/\ sup'.handled = sup.handled + 1
             /\ Head(sup.bus).source = n
             /\ sup.workers[n].retries = max_retries)
            => /\ UpdateRow(n, "HALTED") \in Range(sup'.bus)
               /\ sup'.started[n] = sup.started[n]
               /\ sup'.workers[n].process = "dead"]_vars

\* HALTED has been emitted for a source after 1 + max_retries processes
C14_Witness ==
    \E n \in SupNames :
        /\ sup.haltedAt[n] = 1 + max_retries
        /\ sup.workers[n].retries = max_retries
        /\ sup.handled = 1 + max_retries

C16_TimeoutErrorCarriesRunId ==
    \A n \in sup.timedOut :
        /\ sup.workers[n].process = "dead"
        /\ \E i \in 1..Len(sup.bus) :
              /\ sup.bus[i] = ErrorMsg(n, sup.run_id)
              /\ \A j \in 1..Len(sup.bus) :
                    (sup.bus[j].type = "ERROR" /\ sup.bus[j].source = n) => j = i

-----------------------------------------------------------------------------
(* A failed, rolled-back and retried attempt beside one that succeeds at   *)
(* once: SpecRetry                                                         *)

\* the papers the adapter's search returns, in order (the same for every
\* attempt of the run), stamped by run_worker with the run id
RetryPaperLists(run_id) ==
    {<<p1, p2>> : p1 \in {p \in Papers : p.source = "arxiv" /\ p.source_url = UrlY},
                  p2 \in {p \in Papers : p.source = "arxiv" /\ p.source_url = NoUrl}}

RECURSIVE AddAll(_, _, _)
\* the download loop of run_worker: add_paper for the first n papers
AddAll(store, papers, n) ==
    IF n = 0 THEN store ELSE add_paper(AddAll(store, papers, n - 1), papers[n]).store

InitRetry ==
    /\ \E s \in InitStores : \E run_id \in Times : \E papers \in RetryPaperLists(run_id) :
       \E failAt \in 0 .. (Len(papers) - 1) :
          retry = [start |-> s, run_id |-> run_id,
                   papers |-> [i \in 1..Len(papers) |-> [papers[i] EXCEPT !.downloaded_date = run_id]],
                   failAt |-> failAt, direct |-> s, retried |-> s, step |-> 0]
    /\ RunIdle
    /\ ConcIdle
    /\ CommIdle
    /\ UndoIdle
    /\ SupIdle
    /\ CommitIdle
    /\ LateIdle

RetryFrame == UNCHANGED <<db, phase, last, ops, cstore, pc, cur, cret, comm, storeAB, storeBA, commStep, undo, sup, commit, lateVars>>

\* the first attempt: it stores every paper in one run, and fails after
\* failAt papers in the other
RetryFirstAttempt ==
    /\ retry.step = 0
    /\ retry' = [retry EXCEPT !.direct = AddAll(@, retry.papers, Len(retry.papers)),
                              !.retried = AddAll(@, retry.papers, retry.failAt),
                              !.step = 1]
    /\ RetryFrame

\* handle_error for the worker's ERROR: rollback_source(source, run_id)
RetryRollback ==
    /\ retry.step = 1
    /\ retry' = [retry EXCEPT !.retried = rollback_source(@, "arxiv", retry.run_id).store,
                              !.step = 2]
    /\ RetryFrame

\* the restarted worker stores every paper
RetrySecondAttempt ==
    /\ retry.step = 2
    /\ retry' = [retry EXCEPT !.retried = AddAll(@, retry.papers, Len(retry.papers)),
                              !.step = 3]
    /\ RetryFrame

NextRetry == RetryFirstAttempt \/ RetryRollback \/ RetrySecondAttempt

SpecRetry == InitRetry /\ [][NextRetry]_vars

\* a store's rows without their downloaded_date
WithoutDates(store) == {[r EXCEPT !.downloaded_date = 0] : r \in store}

NothingOfThisRun ==
    \A r \in retry.start :
        "arxiv" \in Range(r.source) => r.downloaded_date < retry.run_id

-----------------------------------------------------------------------------
(* The commit: CloudTransferManager.transfer_folders and the GUI's         *)
(* _show_transfer_dialog: SpecCommit                                       *)
(*                                                                         *)
(* commit.staging and commit.library are the PDF files (by name, in one    *)
(* category folder) under staging_dir and under the library root;          *)
(* commit.copied are the library files that now hold a staged file's       *)
(* content; commit.working and commit.prod are the stores at               *)
(* working_db_path and prod_db_path.  staging0, library0 and prod0 are     *)
(* their values when the commit starts; asked, visited, moved and          *)
(* moveFailed record the conflicts answered, the files the transfer loop   *)
(* has visited, the files moved and the files whose move raised.           *)

\* os.walk order of the staged files
FileOrder == <<"new.pdf", "old.pdf">>

FileNames == Range(FileOrder)

\* os.path.join(root, filename) under staging_dir
StagedPath(filename) == IF filename = "new.pdf" THEN StagingPath ELSE "/staging/old.pdf"

\* os.path.join(cloud_category_path, filename)
CloudPath(filename) == IF filename = "old.pdf" THEN LibraryPath ELSE "/library/new.pdf"

\* pdf_path LIKE '%<filename>'
PathEndsWith(path, filename) == path \in {StagedPath(filename), CloudPath(filename)}

\* the first file of FileOrder that is in the set
FirstFile(files) ==
    FileOrder[CHOOSE i \in 1..Len(FileOrder) :
                /\ FileOrder[i] \in files
                /\ \A j \in 1..(i - 1) : FileOrder[j] \notin files]

\* dict(row) with pdf_path and synced_to_cloud replaced, as add_paper reads it
\* (rows of one source and at most one URL)
RowAsPaper(row, cloud_path) ==
    [title |-> row.title, abstract |-> row.abstract,
     source_url |-> IF row.source_url = <<>> THEN NoUrl ELSE row.source_url[1],
     source |-> row.source[1], pdf_path |-> cloud_path,
     downloaded_date |-> row.downloaded_date]

\* CloudTransferManager._sync_to_prod_db: the production store afterwards.
\* After add_paper, `prod_store.update_pdf_path(...)` is called for a row with a
\* paper_hash; StorageManager has no such method, the AttributeError is caught
\* and logged, and nothing else is written.
sync_to_prod_db(working, prod, filename, cloud_path) ==
    LET rows == {r \in working : PathEndsWith(r.pdf_path, filename)}
    IN  IF rows = {} THEN prod
        ELSE add_paper(prod, RowAsPaper(FirstById(rows), cloud_path)).store

\* stores of rows with one source and at most one URL
CommitStores ==
    {s \in InitStores : \A r \in s : Len(r.source) = 1 /\ Len(r.source_url) <= 1}

\* scan_conflicts: staged files that exist in the library
Conflicts == commit.staging0 \cap commit.library0

InitCommit ==
    /\ \E staged \in SUBSET FileNames : \E lib \in SUBSET FileNames : \E s \in CommitStores :
          commit = [phase |-> "conflicts", result |-> "none",
                    staging |-> staged, library |-> lib, copied |-> {},
                    working |-> s, prod |-> s,
                    staging0 |-> staged, library0 |-> lib, prod0 |-> s,
                    asked |-> {}, cancelled |-> FALSE, visited |-> {}, moved |-> {},
                    moveFailed |-> {}]
    /\ RunIdle
    /\ ConcIdle
    /\ CommIdle
    /\ UndoIdle
    /\ SupIdle
    /\ RetryIdle
    /\ LateIdle

CommitFrame == UNCHANGED <<db, phase, last, ops, cstore, pc, cur, cret, comm, storeAB, storeBA, commStep, undo, sup, retry, lateVars>>

\* transfer_folders, one pass of `for conflict in conflicts`: the user's answer
\* to show_diff_dialog is True (overwrite), False (skip) or None (cancel all)
AnswerConflict(answer) ==
    /\ commit.phase = "conflicts"
    /\ Conflicts \ commit.asked # {}
    /\ LET conflict == FirstFile(Conflicts \ commit.asked)
       IN  commit' =
             CASE answer = "cancel" ->
                    [commit EXCEPT !.asked = @ \cup {conflict}, !.cancelled = TRUE,
                                   !.phase = "done", !.result = "failed"]
               [] answer = "overwrite" ->
                    [commit EXCEPT !.asked = @ \cup {conflict}, !.copied = @ \cup {conflict}]
               [] OTHER ->
                    [commit EXCEPT !.asked = @ \cup {conflict}]
    /\ CommitFrame

\* transfer_folders, one pass of the transfer loop: a file that exists in the
\* library is passed over; any other is moved and synced, and an exception of
\* the move is logged
TransferFile(moves) ==
    /\ commit.phase = "conflicts"
    /\ Conflicts \ commit.asked = {}
    /\ commit.staging0 \ commit.visited # {}
    /\ LET filename == FirstFile(commit.staging0 \ commit.visited)
       IN  commit' =
             IF filename \in commit.library
             THEN [commit EXCEPT !.visited = @ \cup {filename}]
             ELSE IF moves
             THEN [commit EXCEPT !.visited = @ \cup {filename},
                                 !.staging = @ \ {filename},
                                 !.library = @ \cup {filename},
                                 !.copied = @ \cup {filename},
                                 !.moved = @ \cup {filename},
                                 !.prod = sync_to_prod_db(commit.working, @, filename,
                                                          CloudPath(filename))]
             ELSE [commit EXCEPT !.visited = @ \cup {filename},
                                 !.moveFailed = @ \cup {filename}]
    /\ CommitFrame

\* transfer_folders returns True; _show_transfer_dialog reports "Cloud transfer
\* complete!" and calls clear_directory(staging_dir)
TransferComplete ==
    /\ commit.phase = "conflicts"
    /\ Conflicts \ commit.asked = {}
    /\ commit.staging0 \ commit.visited = {}
    /\ commit' = [commit EXCEPT !.phase = "done", !.result = "success", !.staging = {}]
    /\ CommitFrame

NextCommit ==
    \/ \E answer \in {"overwrite", "skip", "cancel"} : AnswerConflict(answer)
    \/ \E moves \in BOOLEAN : TransferFile(moves)
    \/ TransferComplete

SpecCommit == InitCommit /\ [][NextCommit]_vars

\* the staged file has a row in the working store
HasRow(filename) == \E r \in commit.working : r.pdf_path = StagedPath(filename)

\* C18: after a commit that reports success, for every staged PDF that was
\* moved or approved for overwrite the production store has its row with
\* synced_to_cloud = 1 and a pdf_path under the library root, and the staging
\* tree is empty.
C18_CommittedRowsSynced ==
    commit.result = "success" =>
        /\ commit.staging = {}
        /\ \A f \in commit.moved \cup (commit.copied \cap Conflicts) :
              HasRow(f) => \E r \in commit.prod :
                              /\ r.pdf_path = CloudPath(f)
                              /\ r.synced_to_cloud = TRUE

\* C19: if the user answers cancel-all on any conflict the whole commit is
\* aborted: no library file has been created or overwritten, no row of the
\* production store has been written and staging is intact.
C19_CancelAbortsAll ==
    commit.cancelled =>
        /\ commit.library = commit.library0
        /\ commit.copied = {}
        /\ commit.prod = commit.prod0
        /\ commit.staging = commit.staging0

\* C20: if moving a staged file into the library fails, the commit is
\* reported as failed and staging is left in place, the file that could not
\* be moved still being there.
C20_FailedMoveFailsCommit ==
    (commit.phase = "done" /\ commit.moveFailed # {}) =>
        /\ commit.result = "failed"
        /\ commit.moveFailed \subseteq commit.staging

-----------------------------------------------------------------------------
(* FilterManager._validate_prompt and the controllers' start of a run        *)
(* (src/src/filter.py, src/main.py, src/gui.py)                              *)
(*                                                                         *)
(* A prompt is a sequence of symbols: the characters it is made of, with   *)
(* each of the words AND, OR, ANDNOT and XOR taken as one symbol.  A       *)
(* letter stands for any text that is no operator, so an operator name     *)
(* inside a longer word ("normal" holds NOR) is outside the model.         *)

Quote == "\""

\* the symbols of the prompts that are enumerated exhaustively
PromptSymbols == {"(", ")", Quote, " ", "a", "ANDNOT", "XOR"}

SeqsUpTo(S, n) == UNION {[1..k -> S] : k \in 0..n}

\* str.count(c)
Count(text, c) == Cardinality({i \in 1..Len(text) : text[i] = c})

\* str.strip()
Strip(text) ==
    LET solid == {i \in 1..Len(text) : text[i] # " "}
    IN IF solid = {} THEN <<>>
       ELSE SubSeq(text, CHOOSE i \in solid : \A j \in solid : i <= j,
                         CHOOSE i \in solid : \A j \in solid : j <= i)

\* re.findall(r'\(\s*\)', text) finds something
HasEmptyGroup(text) ==
    \E i \in 1..Len(text) : \E j \in (i + 1)..Len(text) :
        /\ text[i] = "("
        /\ text[j] = ")"
        /\ \A k \in (i + 1)..(j - 1) : text[k] = " "

unsupported == {"XOR", "NAND", "NOR"}

\* str.upper() on one symbol; "nor" stands for these three letters inside a
\* word, as in "normal"
Upper(c) == IF c = "nor" THEN "NOR" ELSE c

\* text.split('ANDNOT'): the pieces between the occurrences of ANDNOT
RECURSIVE SplitAt(_, _)
SplitAt(text, sep) ==
    IF \A i \in 1..Len(text) : text[i] # sep THEN <<text>>
    ELSE LET at == CHOOSE i \in 1..Len(text) :
                      text[i] = sep /\ \A j \in 1..(i - 1) : text[j] # sep
         IN <<SubSeq(text, 1, at - 1)>> \o SplitAt(SubSeq(text, at + 1, Len(text)), sep)

\* position of the k-th quote of the section
NthQuote(section, k) ==
    CHOOSE i \in 1..Len(section) :
        section[i] = Quote /\ Cardinality({j \in 1..i : section[j] = Quote}) = k

\* re.findall(r'"([^"]*)"', section): the texts between the 1st and 2nd quote,
\* the 3rd and 4th, ...; an unpaired last quote matches nothing
QuotedTerms(section) ==
    [k \in 1..(Count(section, Quote) \div 2) |->
        SubSeq(section, NthQuote(section, 2 * k - 1) + 1, NthQuote(section, 2 * k) - 1)]

\* open_count != close_count is the whole check of the parentheses
ParenthesesOK(text) == Count(text, "(") = Count(text, ")")

\* the rules _validate_prompt reports as violated
_validate_prompt(text) ==
    IF Strip(text) = <<>> THEN {"Prompt is empty"}
    ELSE LET include_section == SplitAt(text, "ANDNOT")[1]
             quoted_terms == QuotedTerms(include_section)
         IN    (IF ParenthesesOK(text) THEN {} ELSE {"Unbalanced parentheses"})
          \cup (IF Count(text, Quote) % 2 # 0 THEN {"Unbalanced quotes"} ELSE {})
          \cup (IF HasEmptyGroup(text) THEN {"empty group(s)"} ELSE {})
          \cup (IF \E i \in 1..Len(text) : Upper(text[i]) \in unsupported
                THEN {"Unsupported operator"} ELSE {})
          \cup (IF \A k \in 1..Len(quoted_terms) : Strip(quoted_terms[k]) = <<>>
                THEN {"No valid search terms"} ELSE {})
          \cup (IF Strip(text)[1] = "ANDNOT" THEN {"Query starts with ANDNOT"} ELSE {})

\* the prompts a controller may be given
Prompts == SeqsUpTo(PromptSymbols, MaxPromptLen)

InitStart ==
    /\ \E ui \in {"main", "gui"} : \E prompt \in Prompts :
          ctl = [ui |-> ui, prompt |-> prompt, phase |-> "init", reported |-> {},
                 constructed |-> FALSE, workers |-> [n \in SupNames |-> "none"], errors |-> {}]
    /\ RunIdle
    /\ ConcIdle
    /\ CommIdle
    /\ ExtIdle
    /\ FilterIdle
    /\ SchemaIdle
    /\ WorkerIdle
    /\ LastIdle

StartFrame == UNCHANGED <<db, phase, last, ops, cstore, pc, cur, cret, comm, storeAB, storeBA, commStep, extVars, flt, mig, wrk, lastVars>>

\* main(): `if not prompt_text: return`; FilterManager(prompt_text) raising
\* ValueError is logged and main returns; otherwise every worker is started
MainStart ==
    /\ ctl.ui = "main"
    /\ ctl.phase = "init"
    /\ ctl' = IF ctl.prompt = <<>>
              THEN [ctl EXCEPT !.phase = "returned", !.reported = {"No prompt provided."}]
              ELSE IF _validate_prompt(ctl.prompt) # {}
              THEN [ctl EXCEPT !.phase = "returned", !.reported = _validate_prompt(ctl.prompt)]
              ELSE [ctl EXCEPT !.phase = "running", !.constructed = TRUE,
                               !.workers = [n \in SupNames |-> "init"]]
    /\ StartFrame

\* AgentGUI._start_agent_unsafe: the prompt is read from prompts/prompt.txt
\* and handed to the Supervisor, and every worker is started
GuiStart ==
    /\ ctl.ui = "gui"
    /\ ctl.phase = "init"
    /\ ctl' = [ctl EXCEPT !.phase = "running", !.workers = [n \in SupNames |-> "init"]]
    /\ StartFrame

\* run_worker up to its search: FilterManager(current_prompt); a ValueError
\* is caught by the worker, which puts an ERROR message and ends
WorkerInit(n) ==
    /\ ctl.workers[n] = "init"
    /\ ctl' = IF _validate_prompt(ctl.prompt) # {}
              THEN [ctl EXCEPT !.workers[n] = "failed", !.errors = @ \cup {n}]
              ELSE [ctl EXCEPT !.workers[n] = "searching", !.constructed = TRUE]
    /\ StartFrame

NextStart ==
    \/ MainStart
    \/ GuiStart
    \/ \E n \in SupNames : WorkerInit(n)

SpecStart == InitStart /\ [][NextStart]_vars

\* C21: when the prompt fails validation, the controller has reported it and
\* has started no worker process, for the CLI and for the GUI
C21_InvalidQueryStartsNoWorker ==
    (ctl.phase \in {"returned", "running"} /\ _validate_prompt(ctl.prompt) # {})
        => /\ ctl.reported # {}
           /\ \A n \in SupNames : ctl.workers[n] = "none"

\* the rules of the query language: every ")" closes an earlier "(", the
\* quotes pair up, no group is empty, no operator is unsupported, a quoted
\* term stands before ANDNOT, and the query does not start with ANDNOT
ParenthesesNested(text) ==
    /\ Count(text, "(") = Count(text, ")")
    /\ \A i \in 1..Len(text) : Count(SubSeq(text, 1, i), "(") >= Count(SubSeq(text, 1, i), ")")

WellFormed(text) ==
    /\ Strip(text) # <<>>
    /\ ParenthesesNested(text)
    /\ Count(text, Quote) % 2 = 0
    /\ ~HasEmptyGroup(text)
    /\ \A i \in 1..Len(text) : text[i] \notin unsupported
    /\ \E k \in 1..Len(QuotedTerms(SplitAt(text, "ANDNOT")[1])) :
          Strip(QuotedTerms(SplitAt(text, "ANDNOT")[1])[k]) # <<>>
    /\ Strip(text)[1] # "ANDNOT"

\* C22: a FilterManager is constructed only for a prompt that keeps every
\* rule of the query language
C22_ConstructedOnlyIfWellFormed ==
    ctl.constructed => WellFormed(ctl.prompt)

-----------------------------------------------------------------------------
(* FilterManager._parse_prompt and is_relevant (src/src/filter.py)           *)
(*                                                                         *)
(* A candidate's text is a sequence of symbols as well: letters, the space *)
(* between title and abstract, and Gap, which stands for a stretch of      *)
(* max_distance + 1 characters that belong to no term.  What the           *)
(* heuristics measure of a text (its words, URL patterns, list markers,    *)
(* indicator words, marketing phrases) are fields of the candidate beside  *)
(* its symbols.                                                            *)

\* depth after the first i symbols: +1 for "(", -1 for ")"
Depth(section, i) == Count(SubSeq(section, 1, i), "(") - Count(SubSeq(section, 1, i), ")")

\* the section starts with "(", ends with ")", and the depth does not come
\* back to 0 before the last symbol
IsWrapped(section) ==
    /\ Len(section) >= 2
    /\ section[1] = "("
    /\ section[Len(section)] = ")"
    /\ \A i \in 1..(Len(section) - 1) : Depth(section, i) # 0

\* while section.startswith('(') and section.endswith(')'): ... section[1:-1].strip()
RECURSIVE Unwrap(_)
Unwrap(section) ==
    IF IsWrapped(section) THEN Unwrap(Strip(SubSeq(section, 2, Len(section) - 1))) ELSE section

\* depth == 0 and section[idx:idx+5] == ' AND '
AndAt(section, i) ==
    /\ i + 2 <= Len(section)
    /\ Depth(section, i) = 0
    /\ section[i] = " "
    /\ section[i + 1] = "AND"
    /\ section[i + 2] = " "

\* the blocks between the top-level ' AND ' of the section, each stripped
RECURSIVE Blocks(_)
Blocks(section) ==
    IF \A i \in 1..Len(section) : ~AndAt(section, i) THEN <<Strip(section)>>
    ELSE LET at == CHOOSE i \in 1..Len(section) :
                      AndAt(section, i) /\ \A j \in 1..(i - 1) : ~AndAt(section, j)
         IN <<Strip(SubSeq(section, 1, at - 1))>>
                \o Blocks(SubSeq(section, at + 3, Len(section)))

\* extract_groups: the groups the section appends to required_groups
RECURSIVE extract_groups(_)
RECURSIVE ExtractEach(_, _)
ExtractEach(blocks, k) ==
    IF k > Len(blocks) THEN <<>>
    ELSE extract_groups(blocks[k]) \o ExtractEach(blocks, k + 1)

extract_groups(section) ==
    LET unwrapped == Unwrap(Strip(section))
        blocks == Blocks(unwrapped)
    IN IF Len(blocks) > 1 THEN ExtractEach(blocks, 1)
       ELSE IF QuotedTerms(unwrapped) # <<>> THEN <<QuotedTerms(unwrapped)>>
       ELSE <<>>

_parse_prompt(text) ==
    LET parts == SplitAt(Strip(text), "ANDNOT")
        include_section == Strip(parts[1])
        exclude_section == IF Len(parts) > 1 THEN Strip(parts[2]) ELSE <<>>
    IN [required_groups |-> extract_groups(Unwrap(include_section)),
        excluded_terms |-> QuotedTerms(exclude_section)]

\* FilterManager(prompt_text): the filter, or the ValueError
NoFilter == [required_groups |-> <<>>, excluded_terms |-> <<>>]

FilterManager(prompt_text) ==
    IF _validate_prompt(prompt_text) # {}
    THEN [raised |-> TRUE, filter |-> NoFilter]
    ELSE [raised |-> FALSE, filter |-> _parse_prompt(prompt_text)]

\* "x" stands for the phrases of DEFAULT_EXCLUSIONS
default_exclusions == {<<"x">>}

Gap == "..."

\* max_distance=10000 in is_relevant's call of _check_term_proximity
max_distance == 10000

\* characters a symbol of a text stands for
Width(c) == IF c = Gap THEN max_distance + 1 ELSE 1

RECURSIVE TotalWidth(_)
TotalWidth(content) ==
    IF content = <<>> THEN 0 ELSE Width(Head(content)) + TotalWidth(Tail(content))

\* content.find(term, start) over all starts: the character positions where
\* the term occurs (the empty term occurs at every position)
Positions(content, term) ==
    IF term = <<>> THEN 0 .. TotalWidth(content)
    ELSE {TotalWidth(SubSeq(content, 1, i - 1)) :
             i \in {i \in 1..(Len(content) - Len(term) + 1) :
                        SubSeq(content, i, i + Len(term) - 1) = term}}

\* term.lower() in content
Contains(content, term) == Positions(content, LowerText(term)) # {}

\* positions of all the terms of a group
GroupPositions(content, group) ==
    UNION {Positions(content, LowerText(group[k])) : k \in 1..Len(group)}

Abs(n) == IF n < 0 THEN -n ELSE n

_check_term_proximity(content, groups, distance) ==
    IF Len(groups) < 2 THEN TRUE
    ELSE /\ \A g \in 1..Len(groups) : GroupPositions(content, groups[g]) # {}
         /\ \A i \in 1..(Len(groups) - 1) :
               \E pos1 \in GroupPositions(content, groups[i]) :
               \E pos2 \in GroupPositions(content, groups[i + 1]) :
                   Abs(pos1 - pos2) <= distance

HasGap(text) == \E i \in 1..Len(text) : text[i] = Gap

\* the measures a text of these symbols can have: without a Gap the abstract
\* is at most one word of letters and the title holds no keyword
Measurable(title, abstract, m) ==
    /\ abstract = <<>> => m.word_count = 0
    /\ m.word_count = 0 => (m.url_patterns = 0 /\ m.list_indicators = 0)
    /\ (abstract # <<>> /\ ~HasGap(abstract))
          => (m.word_count = 1 /\ m.url_patterns = 0 /\ m.list_indicators = 0)
    /\ HasGap(abstract) => m.word_count >= 1
    /\ ~HasGap(title) => (~m.title_keyword /\ ~m.product_title)
    /\ ~HasGap(title \o abstract) => (m.research_indicator_count = 0 /\ m.marketing_count = 0)

\* url_density = url_patterns / word_count > 0.4
DensityAbove40(url_patterns, word_count) == 5 * url_patterns > 2 * word_count

_is_link_aggregator(title, abstract, m) ==
    IF m.title_keyword /\ (abstract = <<>> \/ TotalWidth(Strip(abstract)) < 100) THEN TRUE
    ELSE IF abstract = <<>> THEN FALSE
    ELSE IF m.word_count < 300 /\ m.url_patterns > 0
            /\ DensityAbove40(m.url_patterns, m.word_count) THEN TRUE
    ELSE IF m.word_count < 500 /\ m.url_patterns >= 10 /\ m.list_indicators >= 5 THEN TRUE
    ELSE IF m.research_indicator_count >= 3 /\ m.word_count >= 150 THEN FALSE
    ELSE FALSE

_is_marketing_content(title, abstract, m) ==
    IF m.marketing_count >= 2 THEN TRUE
    ELSE IF m.product_title /\ m.word_count < 150 THEN TRUE
    ELSE FALSE

GroupMatches_AllTerms(content, group) == \A k \in 1..Len(group) : Contains(content, group[k])

\* `for term in group: if term.lower() in content: match_found = True`
GroupMatches(content, group) == \E k \in 1..Len(group) : Contains(content, group[k])

is_relevant(required_groups, excluded_terms, paper_meta) ==
    LET title == paper_meta.title
        abstract == paper_meta.abstract
        content == LowerText(title \o <<" ">> \o abstract)
    IN IF title = <<>> THEN FALSE
       ELSE IF \E term \in default_exclusions : Contains(content, term) THEN FALSE
       ELSE IF _is_link_aggregator(title, abstract, paper_meta.m) THEN FALSE
       ELSE IF _is_marketing_content(title, abstract, paper_meta.m) THEN FALSE
       ELSE IF \E k \in 1..Len(excluded_terms) : Contains(content, excluded_terms[k]) THEN FALSE
       ELSE IF \E g \in 1..Len(required_groups) : ~GroupMatches(content, required_groups[g])
            THEN FALSE
       ELSE _check_term_proximity(content, required_groups, max_distance)

\* the queries of the grammar  Include ( ANDNOT Group )?  with
\* Include := Group ( AND Group )*,  Group := "(" Term ( OR Term )* ")":
\* their groups, their excluded terms, and whether the operators stand
\* between spaces
OrGroups == {<< <<"a">> >>, << <<"b">> >>, << <<"a">>, <<"b">> >>}

Queries ==
    [groups : UNION {[1..n -> OrGroups] : n \in 1..MaxGroups},
     excluded : {<<>>, << <<"c">> >>},
     spaced : BOOLEAN]

RECURSIVE Join(_, _)
Join(pieces, sep) ==
    IF Len(pieces) = 0 THEN <<>>
    ELSE IF Len(pieces) = 1 THEN pieces[1]
    ELSE pieces[1] \o sep \o Join(Tail(pieces), sep)

WriteTerm(term) == <<Quote>> \o term \o <<Quote>>

WriteGroup(group) ==
    <<"(">> \o Join([k \in 1..Len(group) |-> WriteTerm(group[k])], <<" ", "OR", " ">>) \o <<")">>

Operator(word, spaced) == IF spaced THEN <<" ", word, " ">> ELSE <<word>>

\* the prompt text of a query
WriteQuery(q) ==
    Join([g \in 1..Len(q.groups) |-> WriteGroup(q.groups[g])], Operator("AND", q.spaced))
        \o (IF q.excluded = <<>> THEN <<>>
            ELSE Operator("ANDNOT", q.spaced) \o WriteGroup(q.excluded))

TextSymbols == {"a", "b", "c", "x", Gap}

TitleTexts == {<<>>, <<"A">>, <<"b">>, <<Gap>>}

AbstractTexts == SeqsUpTo(TextSymbols, MaxTextLen)

\* an abstract of a paper, a page of links, an advertisement
FilterMeasures ==
    {NoMeasures,
     [NoMeasures EXCEPT !.word_count = 1],
     [NoMeasures EXCEPT !.word_count = 200, !.research_indicator_count = 3],
     [NoMeasures EXCEPT !.word_count = 20, !.url_patterns = 10],
     [NoMeasures EXCEPT !.word_count = 20, !.marketing_count = 2]}

\* the measures around the thresholds of _is_link_aggregator
AggregatorMeasures ==
    {m \in [word_count : {0, 1, 149, 150, 299, 300, 499, 500},
            url_patterns : {0, 1, 10, 61, 121},
            list_indicators : {0, 5},
            research_indicator_count : {0, 2, 3},
            marketing_count : {0},
            title_keyword : BOOLEAN,
            product_title : {FALSE}] : TRUE}

FilterPapers(measures) ==
    {c \in [title : TitleTexts, abstract : AbstractTexts, m : measures] :
        Measurable(c.title, c.abstract, c.m)}

FilterStart(q, paper) ==
    [phase |-> "init", query |-> q, prompt |-> WriteQuery(q), paper |-> paper,
     raised |-> FALSE, required_groups |-> <<>>, excluded_terms |-> <<>>,
     relevant |-> FALSE, aggregator |-> FALSE]

FilterOthersIdle ==
    /\ RunIdle
    /\ ConcIdle
    /\ CommIdle
    /\ ExtIdle
    /\ StartIdle
    /\ SchemaIdle
    /\ WorkerIdle
    /\ LastIdle

InitFilter ==
    /\ \E q \in Queries : \E paper \in FilterPapers(FilterMeasures) : flt = FilterStart(q, paper)
    /\ FilterOthersIdle

\* one query, every measured abstract
InitAggregator ==
    /\ \E q \in {q \in Queries : Len(q.groups) = 1 /\ q.spaced} :
       \E paper \in FilterPapers(AggregatorMeasures) :
          /\ paper.title = <<Gap>>
          /\ Len(paper.abstract) <= 1
          /\ flt = FilterStart(q, paper)
    /\ FilterOthersIdle

FilterFrame == UNCHANGED <<db, phase, last, ops, cstore, pc, cur, cret, comm, storeAB, storeBA, commStep, extVars, ctl, mig, wrk, lastVars>>

\* filter_mgr = FilterManager(current_prompt)
Construct ==
    /\ flt.phase = "init"
    /\ LET made == FilterManager(flt.prompt)
       IN flt' = [flt EXCEPT !.phase = IF made.raised THEN "invalid" ELSE "ready",
                             !.raised = made.raised,
                             !.required_groups = made.filter.required_groups,
                             !.excluded_terms = made.filter.excluded_terms]
    /\ FilterFrame

\* filter_mgr.is_relevant(p)
Judge ==
    /\ flt.phase = "ready"
    /\ flt' = [flt EXCEPT !.phase = "judged",
                          !.relevant = is_relevant(flt.required_groups, flt.excluded_terms, flt.paper),
                          !.aggregator = _is_link_aggregator(flt.paper.title, flt.paper.abstract,
                                                             flt.paper.m)]
    /\ FilterFrame

NextFilter == Construct \/ Judge

SpecFilter == InitFilter /\ [][NextFilter]_vars

SpecAggregator == InitAggregator /\ [][NextFilter]_vars

\* the candidate's lower-cased title plus abstract
FltContent == LowerText(flt.paper.title \o <<" ">> \o flt.paper.abstract)

\* the conditions of the query itself on the candidate under judgement
PassesQuery ==
    /\ \A term \in default_exclusions : ~Contains(FltContent, term)
    /\ \A k \in 1..Len(flt.query.excluded) : ~Contains(FltContent, flt.query.excluded[k])
    /\ \A g \in 1..Len(flt.query.groups) :
          \E k \in 1..Len(flt.query.groups[g]) : Contains(FltContent, flt.query.groups[g][k])
    /\ \A g \in 1..(Len(flt.query.groups) - 1) :
          \E pos1 \in GroupPositions(FltContent, flt.query.groups[g]) :
          \E pos2 \in GroupPositions(FltContent, flt.query.groups[g + 1]) :
              Abs(pos1 - pos2) <= max_distance

\* C23: the filter's required groups are the query's AND-ed OR-groups in
\* order, and is_relevant returns true only for a candidate without excluded
\* term that holds a term of every group, adjacent groups within max_distance
C23_RelevantOnlyIfQueryHolds ==
    flt.phase = "judged"
        => /\ flt.required_groups = flt.query.groups
           /\ flt.relevant => PassesQuery

\* the required groups with the term added to group g
AddTerm(groups, g, term) == [groups EXCEPT ![g] = Append(@, term)]

AddedTerms == {<<"a">>, <<"b">>, <<"c">>}

\* C24 as stated: adding a term to a required group never turns a rejected
\* candidate into an accepted one
C24_AddingTermNeverAccepts ==
    flt.phase = "judged"
        => \A g \in 1..Len(flt.required_groups) : \A term \in AddedTerms :
              is_relevant(AddTerm(flt.required_groups, g, term), flt.excluded_terms, flt.paper)
                  => flt.relevant

\* C24, amended: adding a term to a required group never turns an accepted
\* candidate into a rejected one
C24_AddingTermNeverRejects ==
    flt.phase = "judged"
        => \A g \in 1..Len(flt.required_groups) : \A term \in AddedTerms :
              flt.relevant
                  => is_relevant(AddTerm(flt.required_groups, g, term), flt.excluded_terms,
                                 flt.paper)

\* an accepted candidate of a filter with two groups, and a term that one of
\* the groups lacks and the candidate does not contain
C24_Witness ==
    /\ flt.phase = "judged"
    /\ flt.relevant
    /\ Len(flt.required_groups) = 2
    /\ \E g \in 1..2 : \E term \in AddedTerms :
          /\ term \notin Range(flt.required_groups[g])
          /\ ~Contains(FltContent, term)
          /\ is_relevant(AddTerm(flt.required_groups, g, term), flt.excluded_terms, flt.paper)

\* C25: an abstract of at least 150 words with at least 3 research-indicator
\* words is not taken for a link aggregator, whatever its URLs and list markers
C25_ResearchAbstractKept ==
    (/\ flt.phase = "judged"
     /\ flt.paper.m.word_count >= 150
     /\ flt.paper.m.research_indicator_count >= 3)
        => ~flt.aggregator

-----------------------------------------------------------------------------
(* StorageManager._init_db and _run_migrations (src/src/storage.py)          *)
(*                                                                         *)
(* A database file is the columns of its papers table ("none": no such     *)
(* table; "v0": the first release's; "v1": with `source`; "v4": with       *)
(* paper_id, paper_hash and title_hash; "v5": without paper_id), whether   *)
(* it has a schema_version table, the set of the versions in that table,   *)
(* and its rows.                                                           *)

CURRENT_VERSION == 5

\* sorted(migrations.keys())
migrations == <<1, 2, 4, 5>>

Max(S) == CHOOSE x \in S : \A y \in S : y <= x

\* CREATE UNIQUE INDEX IF NOT EXISTS idx_paper_hash ON papers(paper_hash)
\* raises OperationalError for a table without that column
HasHashColumns(papers) == papers \in {"v4", "v5"}

\* the columns after migration `version`
MigratedColumns(version, papers) ==
    IF version = 1 THEN (IF papers = "v0" THEN "v1" ELSE papers)
    ELSE IF version = 2 THEN papers
    ELSE IF version = 4 THEN "v4"
    ELSE "v5"

\* the rows after migration `version`: v4 copies the rows in rowid order
\* under new ids and computes their hashes anew, v5 copies them as they are
MigratedRows(version, rows) ==
    IF version = 4
    THEN {[r EXCEPT !.id = Cardinality({q \in rows : q.id <= r.id}),
                    !.paper_hash = generate_stable_hash(FALSE),
                    !.title_hash = generate_stable_hash(normalize_text(r.title) = <<>>)] :
             r \in rows}
    ELSE rows

\* _run_migrations from the k-th registered version on
RECURSIVE RunFrom(_, _, _, _)
RunFrom(k, current_version, file, applied) ==
    IF k > Len(migrations) THEN [file |-> file, applied |-> applied]
    ELSE IF migrations[k] > current_version
    THEN RunFrom(k + 1, migrations[k],
                 [papers |-> MigratedColumns(migrations[k], file.papers),
                  schema_version |-> TRUE,
                  versions |-> file.versions \cup {migrations[k]},
                  rows |-> MigratedRows(migrations[k], file.rows)],
                 Append(applied, migrations[k]))
    ELSE RunFrom(k + 1, current_version, file, applied)

\* _get_schema_version
SchemaVersion(file) == IF file.versions = {} THEN 0 ELSE Max(file.versions)

_run_migrations(file) == RunFrom(1, SchemaVersion(file), file, <<>>)

\* _init_db: the file it leaves, the migrations it applied, and whether it
\* raised (nothing is committed then)
_init_db(file) ==
    LET created == [file EXCEPT !.papers = IF @ = "none" THEN "v5" ELSE @]
        versioned == [created EXCEPT !.schema_version = TRUE,
                                     !.versions = IF @ = {} THEN {CURRENT_VERSION} ELSE @]
    IN IF ~HasHashColumns(created.papers)
       THEN [raised |-> TRUE, file |-> file, applied |-> <<>>]
       ELSE [raised |-> FALSE, file |-> _run_migrations(versioned).file,
             applied |-> _run_migrations(versioned).applied]

\* UPDATE papers SET synced_to_cloud = 1 WHERE id IN (...)
mark_synced(store, internal_ids) ==
    {IF r.id \in internal_ids THEN [r EXCEPT !.synced_to_cloud = TRUE] ELSE r : r \in store}

\* the files a StorageManager may be pointed at: no file yet, the store of
\* the first release, the stores the later releases left, and a store
\* written by a release that is newer than this code
SchemaFiles ==
    {NoFile}
      \cup [papers : {"v0"}, schema_version : {FALSE}, versions : {{}}, rows : SupStores]
      \cup [papers : {"v1"}, schema_version : {TRUE}, versions : {{1, 2}}, rows : SupStores]
      \cup [papers : {"v4"}, schema_version : {TRUE}, versions : {{1, 2, 4}}, rows : SupStores]
      \cup [papers : {"v5"}, schema_version : {TRUE}, versions : {{5}, {1, 2, 4, 5}, {5, 6}},
            rows : SupStores]

InitSchema ==
    /\ \E file \in SchemaFiles :
          mig = [phase |-> "closed", start |-> file, file |-> file, opens |-> 0, raised |-> FALSE,
                 applied |-> <<>>, reapplied |-> <<>>, opened_rows |-> {}, wrote |-> "none"]
    /\ RunIdle
    /\ ConcIdle
    /\ CommIdle
    /\ ExtIdle
    /\ StartIdle
    /\ FilterIdle
    /\ WorkerIdle
    /\ LastIdle

SchemaFrame == UNCHANGED <<db, phase, last, ops, cstore, pc, cur, cret, comm, storeAB, storeBA, commStep, extVars, ctl, flt, wrk, lastVars>>

\* StorageManager(db_path), for the first and for the second time
OpenStore ==
    /\ mig.phase \in {"closed", "open", "written"}
    /\ mig.opens < 2
    /\ ~mig.raised
    /\ LET opened == _init_db(mig.file)
       IN mig' = [mig EXCEPT !.phase = IF opened.raised THEN "closed" ELSE "open",
                             !.file = opened.file,
                             !.raised = opened.raised,
                             !.opens = @ + 1,
                             !.applied = IF mig.opens = 0 THEN opened.applied ELSE @,
                             !.reapplied = IF mig.opens = 1 THEN opened.applied ELSE @,
                             !.opened_rows = IF mig.opens = 0 THEN opened.file.rows ELSE @]
    /\ SchemaFrame

\* the opened store takes one of the writing calls
CanWrite == mig.phase = "open" /\ mig.opens = 1

\* storage.add_paper(paper)
StoreAddPaper(paper) ==
    /\ CanWrite
    /\ mig' = [mig EXCEPT !.phase = "written", !.wrote = "add_paper",
                          !.file.rows = add_paper(mig.file.rows, paper).store]
    /\ SchemaFrame

\* storage.rollback_source(source, start_time_str)
StoreRollback(source, start_time_str) ==
    /\ CanWrite
    /\ mig' = [mig EXCEPT !.phase = "written", !.wrote = "rollback_source",
                          !.file.rows = rollback_source(mig.file.rows, source, start_time_str).store]
    /\ SchemaFrame

\* storage.mark_synced(internal_ids)
StoreMarkSynced(internal_ids) ==
    /\ CanWrite
    /\ mig' = [mig EXCEPT !.phase = "written", !.wrote = "mark_synced",
                          !.file.rows = mark_synced(mig.file.rows, internal_ids)]
    /\ SchemaFrame

NextSchema ==
    \/ OpenStore
    \/ \E paper \in Papers : StoreAddPaper(paper)
    \/ \E source \in Sources : \E t \in Times : StoreRollback(source, t)
    \/ \E ids \in SUBSET (1..MaxRows) : StoreMarkSynced(ids)

SpecSchema == InitSchema /\ [][NextSchema]_vars

\* C26: a store of the first release (a papers table, no recorded version)
\* has, once opened, every registered migration applied in ascending order
\* and recorded; a second opening applies and records nothing
C26_LegacyStoreMigrated ==
    (mig.start.papers # "none" /\ ~mig.start.schema_version /\ mig.opens >= 1)
        => /\ mig.applied = migrations
           /\ Range(migrations) \subseteq mig.file.versions
           /\ mig.opens >= 2 => mig.reapplied = <<>>

\* C27: no row of a store whose recorded version is above CURRENT_VERSION is
\* changed once the store has been opened
C27_NewerStoreReadOnly ==
    (SchemaVersion(mig.start) > CURRENT_VERSION /\ mig.opens >= 1)
        => mig.file.rows = mig.opened_rows

-----------------------------------------------------------------------------
(* run_worker from its search to its end (src/src/worker.py)                 *)
(*                                                                         *)
(* A candidate is the dict the adapter's search returns, with two facts    *)
(* about it beside: whether is_relevant keeps it and whether download      *)
(* returns a path for it.                                                  *)

\* float('inf') as max_papers_per_agent
Unlimited == NULL

IsUnlimited_Always(max_papers_per_agent) == TRUE

\* max_papers_per_agent != float('inf')
IsUnlimited(max_papers_per_agent) == max_papers_per_agent = Unlimited

\* kept[:int(max_papers_per_agent)] if max_papers_per_agent != float('inf') else kept
PapersToDownload(kept, max_papers_per_agent) ==
    IF IsUnlimited(max_papers_per_agent) THEN kept
    ELSE SubSeq(kept, 1, Min(Len(kept), max_papers_per_agent))

\* downloaded_count >= max_papers_per_agent
ReachedLimit(downloaded_count, max_papers_per_agent) ==
    ~IsUnlimited(max_papers_per_agent) /\ downloaded_count >= max_papers_per_agent

IsTestMode_Never(mode) == FALSE

\* mode == "TEST"
IsTestMode(mode) == mode = "TEST"

\* to_title_case and the re.sub of sanitize_filename: "_" and "-" become " "
Spaced(title) == [i \in 1..Len(title) |-> IF title[i] \in {"_", "-"} THEN " " ELSE title[i]]

\* " ".join(text.split()): no space at either end and none after another
RECURSIVE JoinSplit(_)
JoinSplit(text) ==
    IF text = <<>> THEN <<>>
    ELSE IF Head(text) = " " THEN JoinSplit(Tail(text))
    ELSE IF Len(text) >= 2 /\ text[2] = " " /\ JoinSplit(Tail(text)) # <<>>
         THEN <<Head(text), " ">> \o JoinSplit(Tail(text))
    ELSE <<Head(text)>> \o JoinSplit(Tail(text))

\* to_title_case: the first letter of every word in upper case
Capitalized(text) ==
    [i \in 1..Len(text) |-> IF text[i] = "d" /\ (i = 1 \/ text[i - 1] = " ") THEN "D" ELSE text[i]]

\* sanitize_filename(title, extension=".pdf")
sanitize_filename(title) ==
    LET safe_title == JoinSplit(Spaced(Capitalized(JoinSplit(Spaced(title)))))
    IN  (IF safe_title = <<>> THEN <<"Untitled Paper">> ELSE safe_title) \o <<".pdf">>

\* CloudTransferManager.check_cloud_duplicate: a file of that name is in the library
check_cloud_duplicate(library, pdf_filename) == pdf_filename \in library

\* StorageManager.paper_exists(paper_id=None, source_url=None)
paper_exists(store, paper_id, source_url) ==
    IF source_url # NoUrl
    THEN LET p_hash == generate_stable_hash(normalize_url(source_url) = NoUrl)
         IN p_hash # NULL /\ p_hash # 0 /\ \E r \in store : SqlEq(r.paper_hash, p_hash)
    ELSE FALSE

\* the path searcher.download writes the candidate's file to
DownloadedPath(paper) == <<"/staging/">> \o sanitize_filename(paper.title)

\* the dicts a search returns
Results ==
    [title : Titles, abstract : {<<"b">>}, source_url : {UrlTracked, UrlY}, source : {"arxiv"},
     id : {"2401.00001"}, relevant : BOOLEAN, downloadable : BOOLEAN]

\* the dict handed to add_paper: pdf_path and downloaded_date set by the worker
Stored(paper, path, run_id) ==
    [title |-> paper.title, abstract |-> paper.abstract, source_url |-> paper.source_url,
     source |-> paper.source, pdf_path |-> path, downloaded_date |-> run_id]

IsRelevantResult(p) == p.relevant

WorkerModes == {"TEST", "TESTING", "DAILY", "BACKFILL"}

InitWorker ==
    /\ \E mode \in WorkerModes : \E max \in {1, Unlimited} :
       \E results \in SeqsUpTo(Results, MaxResults) : \E st \in SupStores :
       \E library \in {{}, {sanitize_filename(<<"A">>)}} :
          /\ mode = "TESTING" => (max = 1 /\ library = {})
          /\ wrk = [phase |-> "init", mode |-> mode, max_papers_per_agent |-> max,
                    results |-> results, kept |-> <<>>, papers_to_download |-> <<>>, i |-> 0,
                    downloaded_count |-> 0, duplicate_count |-> 0,
                    store |-> st, store0 |-> st, library |-> library, files |-> {},
                    found |-> NULL, status |-> "", download_calls |-> <<>>,
                    add_paper_calls |-> <<>>, duplicates |-> {}]
    /\ RunIdle
    /\ ConcIdle
    /\ CommIdle
    /\ ExtIdle
    /\ StartIdle
    /\ FilterIdle
    /\ SchemaIdle
    /\ LastIdle

WorkerFrame == UNCHANGED <<db, phase, last, ops, cstore, pc, cur, cret, comm, storeAB, storeBA, commStep, extVars, ctl, flt, mig, lastVars>>

\* run_worker from searcher.search to the start of the download loop: the
\* results are filtered; in TEST mode the count is reported and the worker returns
WorkerSearch ==
    /\ wrk.phase = "init"
    /\ LET kept == SelectSeq(wrk.results, IsRelevantResult)
       IN wrk' = IF IsTestMode(wrk.mode)
                 THEN [wrk EXCEPT !.phase = "done", !.kept = kept, !.found = Len(kept),
                                  !.status = "Complete"]
                 ELSE [wrk EXCEPT !.phase = "loop", !.kept = kept, !.i = 1,
                                  !.papers_to_download =
                                      PapersToDownload(kept, wrk.max_papers_per_agent)]
    /\ WorkerFrame

\* one pass of `for i, paper in enumerate(papers_to_download)`
WorkerIteration ==
    /\ wrk.phase = "loop"
    /\ wrk.i <= Len(wrk.papers_to_download)
    /\ ~ReachedLimit(wrk.downloaded_count, wrk.max_papers_per_agent)
    /\ LET paper == wrk.papers_to_download[wrk.i]
           path == DownloadedPath(paper)
       IN wrk' =
            IF check_cloud_duplicate(wrk.library, sanitize_filename(paper.title))
               \/ paper_exists(wrk.store, paper.id, NoUrl)
            THEN [wrk EXCEPT !.i = @ + 1, !.duplicate_count = @ + 1,
                             !.duplicates = @ \cup {wrk.i}]
            ELSE IF paper.downloadable
            THEN [wrk EXCEPT !.i = @ + 1, !.downloaded_count = @ + 1,
                             !.download_calls = Append(@, wrk.i),
                             !.add_paper_calls = Append(@, wrk.i),
                             !.files = @ \cup {path},
                             !.store = add_paper(@, Stored(paper, path, RunId)).store]
            ELSE [wrk EXCEPT !.i = @ + 1, !.download_calls = Append(@, wrk.i)]
    /\ WorkerFrame

\* the end of the loop: a BACKFILL run without download and without
\* duplicate raises, every other run reports its counts
WorkerEnd ==
    /\ wrk.phase = "loop"
    /\ \/ wrk.i > Len(wrk.papers_to_download)
       \/ ReachedLimit(wrk.downloaded_count, wrk.max_papers_per_agent)
    /\ wrk' = IF wrk.mode = "BACKFILL" /\ wrk.downloaded_count = 0 /\ wrk.duplicate_count = 0
              THEN [wrk EXCEPT !.phase = "failed", !.status = "ERROR"]
              ELSE [wrk EXCEPT !.phase = "done", !.found = Len(wrk.kept),
                               !.status = IF wrk.downloaded_count > 0 THEN "Complete"
                                          ELSE "No Results"]
    /\ WorkerFrame

NextWorker == WorkerSearch \/ WorkerIteration \/ WorkerEnd

SpecWorker == InitWorker /\ [][NextWorker]_vars

C29_AtMostMaxPapersStored ==
    ~(wrk.max_papers_per_agent = Unlimited)
        => Len(wrk.add_paper_calls) <= wrk.max_papers_per_agent

\* more kept candidates than the limit, all of them downloadable, and the
\* limit reached
C29_Witness ==
    /\ wrk.phase = "done"
    /\ wrk.max_papers_per_agent # Unlimited
    /\ Len(wrk.kept) > wrk.max_papers_per_agent
    /\ \A k \in 1..Len(wrk.kept) : wrk.kept[k].downloadable
    /\ Len(wrk.add_paper_calls) = wrk.max_papers_per_agent

\* a row of the store lists the candidate's URL, compared after normalization
UrlInStore(store, paper) ==
    \E r \in store : normalize_url(paper.source_url) \in NormalizedSet(r.source_url)

\* C30: a candidate of the loop whose URL is already in the store is counted
\* as a duplicate, and neither download nor add_paper is called for it
C30_KnownUrlSkipped ==
    \A k \in 1..Len(wrk.papers_to_download) :
        (k < wrk.i /\ UrlInStore(wrk.store0, wrk.papers_to_download[k]))
            => /\ k \in wrk.duplicates
               /\ k \notin Range(wrk.download_calls)
               /\ k \notin Range(wrk.add_paper_calls)

-----------------------------------------------------------------------------
(* Cancelling a run of the GUI controller: SpecStop                          *)
(*                                                                         *)
(* sup is as in SpecSup, under the GUI controller.  stp.stop_event is the  *)
(* multiprocessing.Event the controller, the Supervisor and every worker   *)
(* share; stp.restarted and stp.emitted record the sources a process was   *)
(* started for, and the statuses of the UPDATE_ROW messages put, in a      *)
(* state where the event was set.                                          *)

\* the messages a step has put: the bus after it, without what was left of
\* the bus before it
Emitted(before, after) ==
    IF Len(after) >= Len(before) /\ SubSeq(after, 1, Len(before)) = before
    THEN SubSeq(after, Len(before) + 1, Len(after))
    ELSE SubSeq(after, Len(before), Len(after))

\* what a step from s to t adds to the record, when the event is set
Observed(st, s, t) ==
    IF st.stop_event
    THEN [st EXCEPT !.restarted = @ \cup {n \in SupNames : t.started[n] > s.started[n]},
                    !.emitted = @ \cup {m.status : m \in {e \in Range(Emitted(s.bus, t.bus)) :
                                                            e.type = "UPDATE_ROW"}}]
    ELSE st

\* Supervisor.stop_all
stop_all(s) ==
    [s EXCEPT !.workers = [n \in SupNames |-> [s.workers[n] EXCEPT !.process = "dead"]]]

InitStop ==
    /\ \E st \in SupStores : \E run_id \in Times :
          sup = [ui |-> "gui", loop |-> "running", is_running |-> TRUE, run_id |-> run_id,
                 workers |-> [n \in SupNames |-> [process |-> "alive", pc |-> "init", retries |-> 0,
                                                  run_id |-> NULL, last_heartbeat |-> "fresh",
                                                  downloads |-> 0]],
                 bus |-> <<>>, sdb |-> st, files |-> {r.pdf_path : r \in st},
                 started |-> [n \in SupNames |-> 1], haltedAt |-> [n \in SupNames |-> 0],
                 handle |-> [source |-> "", run_id |-> 0, pre |-> {}, paths |-> {}, ids |-> {},
                             disk_pre |-> {}, disk |-> {}],
                 timedOut |-> {}, errors |-> 0, handled |-> 0]
    /\ StopIdle
    /\ RunIdle
    /\ ConcIdle
    /\ CommIdle
    /\ UndoIdle
    /\ RetryIdle
    /\ CommitIdle
    /\ StartIdle
    /\ FilterIdle
    /\ SchemaIdle
    /\ WorkerIdle
    /\ UrlIdle
    /\ DownloadIdle
    /\ NamesIdle
    /\ BeatIdle
    /\ ProcsIdle
    /\ GrammarIdle

StopFrame == UNCHANGED <<db, phase, last, ops, cstore, pc, cur, cret, comm, storeAB, storeBA, commStep, undo, retry, commit, ctl, flt, mig, wrk, nu, dl, reg, hb, pr, gq>>

\* AgentGUI.stop_agent: the event is set and every live worker terminated
StopAgent ==
    /\ ~stp.stop_event
    /\ sup.is_running
    /\ stp' = [stp EXCEPT !.stop_event = TRUE]
    /\ sup' = stop_all(sup)
    /\ StopFrame

\* run_worker up to the search: "Running..." and "Searching..."
StopWorkerBegin(n) ==
    /\ sup.workers[n].process = "alive"
    /\ sup.workers[n].pc = "init"
    /\ sup' = [Put(sup, <<[UpdateRow(n, "Running...") EXCEPT !.run_id = sup.run_id],
                          UpdateRow(n, "Searching...")>>)
                 EXCEPT !.workers[n].pc = "loop"]
    /\ stp' = Observed(stp, sup, sup')
    /\ StopFrame

\* run_worker after a search that saw the event set: "Search cancelled by
\* user" and the process ends
StopWorkerCancelled(n) ==
    /\ stp.stop_event
    /\ sup.workers[n].process = "alive"
    /\ sup.workers[n].pc = "loop"
    /\ sup' = [Put(sup, <<LogMsg>>) EXCEPT !.workers[n].process = "dead"]
    /\ stp' = Observed(stp, sup, sup')
    /\ StopFrame

\* run_worker, one pass of the download loop
StopWorkerDownload(n) ==
    /\ ~stp.stop_event
    /\ sup.workers[n].process = "alive"
    /\ sup.workers[n].pc = "loop"
    /\ sup.workers[n].downloads < MaxDownloads
    /\ LET paper == SupPaper(n, sup.run_id)
       IN  sup' = [Put(sup, <<UpdateRow(n, "Downloading"), ProgressMsg(n)>>)
                     EXCEPT !.files = @ \cup {paper.pdf_path},
                            !.sdb = add_paper(@, paper).store,
                            !.workers[n].downloads = @ + 1]
    /\ stp' = Observed(stp, sup, sup')
    /\ StopFrame

\* run_worker, `except Exception`: the ERROR is put and the process ends
StopWorkerFail(n) ==
    /\ sup.workers[n].process = "alive"
    /\ sup' = [Put(sup, <<ErrorMsg(n, sup.run_id)>>)
                 EXCEPT !.workers[n].process = "dead", !.errors = @ + 1]
    /\ stp' = Observed(stp, sup, sup')
    /\ StopFrame

\* run_worker, "Complete": the final messages are put and the process ends
StopWorkerComplete(n) ==
    /\ ~stp.stop_event
    /\ sup.workers[n].process = "alive"
    /\ sup.workers[n].pc = "loop"
    /\ sup' = [Put(sup, <<ProgressMsg(n), UpdateRow(n, "Complete"), LogMsg>>)
                 EXCEPT !.workers[n].process = "dead"]
    /\ stp' = Observed(stp, sup, sup')
    /\ StopFrame

\* worker_timeout seconds pass without a heartbeat of the worker being recorded
StopHeartbeatExpires(n) ==
    /\ sup.workers[n].process = "alive"
    /\ sup.workers[n].last_heartbeat = "fresh"
    /\ sup' = [sup EXCEPT !.workers[n].last_heartbeat = "stale"]
    /\ stp' = stp
    /\ StopFrame

\* AgentGUI.process_queue: one tick, which does not read the event before
\* it dispatches a message
StopProcessQueue ==
    /\ LET s1 == check_timeouts(GetAndDispatch(sup))
       IN  sup' = IF ~is_any_alive(s1) /\ s1.is_running
                  THEN Put([s1 EXCEPT !.is_running = FALSE], <<DoneMsg>>)
                  ELSE s1
    /\ stp' = Observed(stp, sup, sup')
    /\ StopFrame

NextStop ==
    \/ StopAgent
    \/ \E n \in SupNames : StopWorkerBegin(n)
    \/ \E n \in SupNames : StopWorkerCancelled(n)
    \/ \E n \in SupNames : StopWorkerDownload(n)
    \/ \E n \in SupNames : StopWorkerFail(n)
    \/ \E n \in SupNames : StopWorkerComplete(n)
    \/ \E n \in SupNames : StopHeartbeatExpires(n)
    \/ StopProcessQueue

SpecStop == InitStop /\ [][NextStop]_vars

\* the statuses that end a source's row
TerminalStatuses == {"Complete", "No Results", "FAILED", "HALTED"}

\* C31: once the cancel signal is set, no worker process is started for any
\* source and no UPDATE_ROW with a non-terminal status is put on the bus
C31_NothingStartedAfterCancel ==
    /\ stp.restarted = {}
    /\ stp.emitted \subseteq TerminalStatuses

-----------------------------------------------------------------------------
(* normalize_url on URLs whose path is spelled out: SpecUrl                  *)
(*                                                                         *)
(* A URL is written scheme://netloc path ?query #fragment; its path is a   *)
(* sequence of characters, its query the sequence of its keys, each with a *)
(* non-blank value.                                                        *)

\* the last position of c in text, 0 if there is none
LastIndex(text, c) ==
    LET at == {i \in 1..Len(text) : text[i] = c}
    IN  IF at = {} THEN 0 ELSE CHOOSE i \in at : \A j \in at : j <= i

\* the first position of c in text at or after start, 0 if there is none
FirstIndexFrom(text, c, start) ==
    LET at == {i \in start..Len(text) : text[i] = c}
    IN  IF at = {} THEN 0 ELSE CHOOSE i \in at : \A j \in at : i <= j

\* urllib.parse._splitparams, which urlparse applies to the path: the path
\* ends at the first ";" of its last segment
SplitParams(path) ==
    LET i == IF LastIndex(path, "/") > 0
             THEN FirstIndexFrom(path, ";", LastIndex(path, "/"))
             ELSE FirstIndexFrom(path, ";", 1)
    IN  IF i = 0 THEN path ELSE SubSeq(path, 1, i - 1)

RStripPath_Keep(path) == path

\* str.rstrip('/')
RStripPath(path) ==
    LET keep == {i \in 1..Len(path) : path[i] # "/"}
    IN  IF keep = {} THEN <<>>
        ELSE SubSeq(path, 1, CHOOSE i \in keep : \A j \in keep : j <= i)

\* normalize_url: urlparse, the five changes, urlunparse with params '' and
\* fragment ''
NormalizeWritten(url) ==
    [scheme   |-> "https",
     netloc   |-> LowerHost(url.netloc),
     path     |-> RStripPath(SplitParams(url.path)),
     query    |-> SelectSeq(url.query, IsNotTracking),
     fragment |-> ""]

\* the paths of URLs with a host: empty or starting with "/"
WrittenPaths == {path \in SeqsUpTo({"/", "a", ";"}, MaxPathLen) : path = <<>> \/ path[1] = "/"}

WrittenUrls ==
    [scheme : {"http", "https"}, netloc : {"Example.com", "example.com"}, path : WrittenPaths,
     query : {<<>>, <<"utm_source">>, <<"id">>, <<"id", "utm_source">>}, fragment : {"", "top"}]

\* path with one more or one less "/" at its end, or the same
SlashVariants(path) ==
    {q \in WrittenPaths : \/ q = path
                          \/ q = Append(path, "/")
                          \/ path = Append(q, "/")}

\* the URLs that differ from url only in scheme, host letter case, trailing
\* slash on the path, fragment or tracking parameters
Variants(url) ==
    {v \in WrittenUrls :
        /\ LowerHost(v.netloc) = LowerHost(url.netloc)
        /\ v.path \in SlashVariants(url.path)
        /\ SelectSeq(v.query, IsNotTracking) = SelectSeq(url.query, IsNotTracking)}

InitUrl ==
    /\ \E u \in WrittenUrls : \E v \in Variants(u) :
          nu = [phase |-> "given", u |-> u, v |-> v, once |-> <<>>, twice |-> <<>>, other |-> <<>>]
    /\ RunIdle
    /\ ConcIdle
    /\ CommIdle
    /\ ExtIdle
    /\ StartIdle
    /\ FilterIdle
    /\ SchemaIdle
    /\ WorkerIdle
    /\ StopIdle
    /\ DownloadIdle
    /\ NamesIdle
    /\ BeatIdle
    /\ ProcsIdle
    /\ GrammarIdle

UrlFrame == UNCHANGED <<db, phase, last, ops, cstore, pc, cur, cret, comm, storeAB, storeBA, commStep, extVars, ctl, flt, mig, wrk, stp, dl, reg, hb, pr, gq>>

\* normalize_url(u) and normalize_url(v)
NormalizeBoth ==
    /\ nu.phase = "given"
    /\ nu' = [nu EXCEPT !.phase = "once", !.once = NormalizeWritten(nu.u),
                        !.other = NormalizeWritten(nu.v)]
    /\ UrlFrame

\* normalize_url(normalize_url(u))
NormalizeAgain ==
    /\ nu.phase = "once"
    /\ nu' = [nu EXCEPT !.phase = "twice", !.twice = NormalizeWritten(nu.once)]
    /\ UrlFrame

NextUrl == NormalizeBoth \/ NormalizeAgain

SpecUrl == InitUrl /\ [][NextUrl]_vars

\* C32: normalize_url(normalize_url(u)) = normalize_url(u), and URLs that
\* differ only in scheme, host letter case, trailing slash on the path,
\* fragment or tracking parameters have the same normalization
C32_NormalizeUrlCanonical ==
    /\ nu.phase = "twice" => nu.twice = nu.once
    /\ nu.phase \in {"once", "twice"} => nu.other = nu.once

-----------------------------------------------------------------------------
(* ArxivSearcher.download and LessWrongSearcher.download: SpecDownload       *)
(*                                                                         *)
(* dl.papers are the papers a worker downloads in one run, dl.disk the     *)
(* files of the staging tree, each with the paper whose content it holds,  *)
(* dl.returned the value download returned for each paper.                 *)

\* the categories classify_paper gives
Categories == {"Alignment", "Other"}

DownloadTitles == {t \in SeqsUpTo({"d", "_", "-"}, MaxTitleLen) : t # <<>>}

\* paper_meta with what download reads of it; category is
\* classify_paper(title, abstract, authors)
Downloadables == [title : DownloadTitles, category : Categories, pdf_url : {"u1", "u2"}]

\* os.path.join(save_dir, filename)
FilePath(paper_meta) == <<paper_meta.category>> \o sanitize_filename(paper_meta.title)

\* os.path.exists(filepath)
Exists(disk, filepath) == \E f \in disk : f.path = filepath

\* download(paper_meta), the request answering 200 or not
download(disk, paper_meta, answered) ==
    LET filepath == FilePath(paper_meta)
    IN  IF Exists(disk, filepath) THEN [disk |-> disk, path |-> filepath]
        ELSE IF answered
        THEN [disk |-> disk \cup {[path |-> filepath, content |-> paper_meta.pdf_url]},
              path |-> filepath]
        ELSE [disk |-> disk, path |-> <<>>]

InitDownload ==
    /\ \E a, b \in Downloadables :
          /\ a.pdf_url = "u1"
          /\ b.pdf_url = "u2"
          /\ dl = [phase |-> "run", papers |-> <<a, b>>, i |-> 1, disk |-> {}, returned |-> <<>>]
    /\ RunIdle
    /\ ConcIdle
    /\ CommIdle
    /\ ExtIdle
    /\ StartIdle
    /\ FilterIdle
    /\ SchemaIdle
    /\ WorkerIdle
    /\ StopIdle
    /\ UrlIdle
    /\ NamesIdle
    /\ BeatIdle
    /\ ProcsIdle
    /\ GrammarIdle

DownloadFrame == UNCHANGED <<db, phase, last, ops, cstore, pc, cur, cret, comm, storeAB, storeBA, commStep, extVars, ctl, flt, mig, wrk, stp, nu, reg, hb, pr, gq>>

\* the worker calls searcher.download for its next paper
DownloadNext ==
    /\ dl.phase = "run"
    /\ dl.i <= Len(dl.papers)
    /\ \E answered \in BOOLEAN :
          LET got == download(dl.disk, dl.papers[dl.i], answered)
          IN  dl' = [dl EXCEPT !.i = @ + 1, !.disk = got.disk,
                               !.returned = Append(@, got.path)]
    /\ DownloadFrame

\* the loop over the papers ends
DownloadsEnd ==
    /\ dl.phase = "run"
    /\ dl.i > Len(dl.papers)
    /\ dl' = [dl EXCEPT !.phase = "done"]
    /\ DownloadFrame

NextDownload == DownloadNext \/ DownloadsEnd

SpecDownload == InitDownload /\ [][NextDownload]_vars

\* C33: two different papers of one run with the same sanitized filename and
\* the same category, both downloaded, are two files: the paths download
\* returned differ and each file holds its own paper
C33_CollidingNamesKeptApart ==
    \A j, k \in 1..Len(dl.returned) :
        (/\ j < k
         /\ dl.returned[j] # <<>>
         /\ dl.returned[k] # <<>>
         /\ dl.papers[j].category = dl.papers[k].category
         /\ sanitize_filename(dl.papers[j].title) = sanitize_filename(dl.papers[k].title))
            => /\ dl.returned[j] # dl.returned[k]
               /\ [path |-> dl.returned[j], content |-> dl.papers[j].pdf_url] \in dl.disk
               /\ [path |-> dl.returned[k], content |-> dl.papers[k].pdf_url] \in dl.disk

-----------------------------------------------------------------------------
(* The names of the registered adapters: SpecNames                           *)
(*                                                                         *)
(* reg.display_name is the name an adapter is registered under,            *)
(* reg.written the value the adapter puts in the 'source' field of the     *)
(* papers it returns; reg.store holds rows carrying that value, dated by   *)
(* the run, beside a row of another origin.                                *)

\* lab['name'] of the labs LabScraper is configured with
LabNames == {"Anthropic", "OpenAI"}

\* f"labs_{lab['name'].lower()}"
LabSource(lab) == IF lab = "Anthropic" THEN "labs_anthropic" ELSE "labs_openai"

\* the workers list of the controllers, each display name with the values
\* its adapter class writes as 'source'
Registered ==
    {<<"ArXiv", "arxiv">>, <<"LessWrong", "lesswrong">>, <<"OpenReview", "openreview">>,
     <<"ACL Anthology", "acl_anthology">>, <<"AAAI", "aaai">>}
    \cup {<<"AI Labs", LabSource(lab)>> : lab \in LabNames}

\* a row stored for a paper of the adapter in the run
AdapterRow(id, k, written, run_id) ==
    [MakeRow(id, k) EXCEPT !.source = <<written>>, !.downloaded_date = run_id,
                           !.pdf_path = StagingPath, !.synced_to_cloud = FALSE]

InitNames ==
    /\ \E a \in Registered : \E run_id \in Times : \E count \in 1..MaxRows :
       \E k \in TemplateIds : \E others \in SupStores :
          LET own == {AdapterRow(100 + i, k, a[2], run_id) : i \in 1..count}
          IN  /\ UniqueIndexOK(own \cup others)
              /\ reg = [phase |-> "stored", display_name |-> a[1], written |-> a[2],
                        run_id |-> run_id, store |-> own \cup others, store0 |-> own \cup others,
                        msg |-> <<>>, rolled |-> "", deleted |-> {}]
    /\ RunIdle
    /\ ConcIdle
    /\ CommIdle
    /\ ExtIdle
    /\ StartIdle
    /\ FilterIdle
    /\ SchemaIdle
    /\ WorkerIdle
    /\ StopIdle
    /\ UrlIdle
    /\ DownloadIdle
    /\ BeatIdle
    /\ ProcsIdle
    /\ GrammarIdle

NamesFrame == UNCHANGED <<db, phase, last, ops, cstore, pc, cur, cret, comm, storeAB, storeBA, commStep, extVars, ctl, flt, mig, wrk, stp, nu, dl, hb, pr, gq>>

\* run_worker, `except Exception`: ERROR with the display name and the run id
NamesWorkerError ==
    /\ reg.phase = "stored"
    /\ reg' = [reg EXCEPT !.phase = "failed",
                          !.msg = <<ErrorMsg(reg.display_name, reg.run_id)>>]
    /\ NamesFrame

\* handle_error, "2. Rollback"
NamesHandleError ==
    /\ reg.phase = "failed"
    /\ LET msg == reg.msg[1]
           source == NormalizedName(msg.source)
           res == rollback_source(reg.store, source, msg.run_id)
       IN  reg' = [reg EXCEPT !.phase = "handled", !.msg = <<>>, !.rolled = source,
                              !.store = res.store, !.deleted = res.internal_ids]
    /\ NamesFrame

NextNames == NamesWorkerError \/ NamesHandleError

SpecNames == InitNames /\ [][NextNames]_vars

\* C34: the name handle_error passes to rollback_source is the value the
\* failed worker's adapter writes as source, and the rows of the failed
\* worker are the rows rolled back
C34_RollbackNameIsAdapterSource ==
    reg.phase = "handled"
        => /\ reg.rolled = reg.written
           /\ reg.deleted = {r.id : r \in {q \in reg.store0 : q.source = <<reg.written>>
                                                              /\ q.downloaded_date >= reg.run_id}}

-----------------------------------------------------------------------------
(* Heartbeats and check_timeouts with a clock: SpecBeat                      *)
(*                                                                         *)
(* hb.now is time.time() in seconds since the worker was started,          *)
(* hb.last_heartbeat is workers[S]['last_heartbeat'], hb.last_put the time *)
(* of the worker's latest event, hb.bus the events not yet consumed.  The  *)
(* clock advances only when every event has been consumed and the worker's *)
(* next event is less than worker_timeout after its latest one.            *)

\* retry_settings.get('worker_timeout', 600)
worker_timeout == 600

EventTypes == {"UPDATE_ROW", "PROGRESS_UPDATE", "LOG"}

\* the controller loops refresh last_heartbeat in the UPDATE_ROW branch only
RefreshesHeartbeat(msg_type) == msg_type = "UPDATE_ROW"

\* the controller's dispatch of one event, if there is one
BeatDispatch(h) ==
    IF h.bus = <<>> THEN h
    ELSE IF RefreshesHeartbeat(Head(h.bus))
    THEN [h EXCEPT !.bus = Tail(@), !.last_heartbeat = h.now]
    ELSE [h EXCEPT !.bus = Tail(@)]

\* check_timeouts for the worker: elapsed > self.worker_timeout
BeatCheckTimeouts(h) ==
    IF h.process = "alive" /\ h.now - h.last_heartbeat > worker_timeout
    THEN [h EXCEPT !.process = "dead", !.terminated = TRUE]
    ELSE h

InitBeat ==
    /\ \E ui \in {"main", "gui"} :
          hb = [ui |-> ui, now |-> 0, last_heartbeat |-> 0, last_put |-> 0, bus |-> <<>>,
                process |-> "alive", terminated |-> FALSE]
    /\ RunIdle
    /\ ConcIdle
    /\ CommIdle
    /\ ExtIdle
    /\ StartIdle
    /\ FilterIdle
    /\ SchemaIdle
    /\ WorkerIdle
    /\ StopIdle
    /\ UrlIdle
    /\ DownloadIdle
    /\ NamesIdle
    /\ ProcsIdle
    /\ GrammarIdle

BeatFrame == UNCHANGED <<db, phase, last, ops, cstore, pc, cur, cret, comm, storeAB, storeBA, commStep, extVars, ctl, flt, mig, wrk, stp, nu, dl, reg, pr, gq>>

\* run_worker: task_queue.put of one event
BeatWorkerPut(msg_type) ==
    /\ hb.process = "alive"
    /\ Len(hb.bus) < MaxBus
    /\ hb' = [hb EXCEPT !.bus = Append(@, msg_type), !.last_put = hb.now]
    /\ BeatFrame

\* one pass of the controller loop: an event is taken, if there is one, and
\* check_timeouts runs
BeatLoopPass ==
    /\ hb.process = "alive"
    /\ hb' = BeatCheckTimeouts(BeatDispatch(hb))
    /\ BeatFrame

\* time passes
BeatTick ==
    /\ hb.process = "alive"
    /\ hb.bus = <<>>
    /\ hb.now < MaxTicks * TickSeconds
    /\ (hb.now + TickSeconds) - hb.last_put < worker_timeout
    /\ hb' = [hb EXCEPT !.now = @ + TickSeconds]
    /\ BeatFrame

NextBeat ==
    \/ \E msg_type \in EventTypes : BeatWorkerPut(msg_type)
    \/ BeatLoopPass
    \/ BeatTick

SpecBeat == InitBeat /\ [][NextBeat]_vars

\* C35: a worker whose events, of any type, follow each other at less than
\* worker_timeout and are consumed is never terminated by check_timeouts
C35_LiveWorkerNotTimedOut == ~hb.terminated

-----------------------------------------------------------------------------
(* The end of a run under the GUI controller (SpecSup) *)

\* an ERROR that handle_error has not been given is on the bus
ErrorOnBus(s) == \E i \in 1..Len(s.bus) : s.bus[i].type = "ERROR"

\* C36: the GUI controller clears is_running and emits DONE only in a state
\* where no worker is alive and no ERROR waits on the bus, and once it has,
\* no worker is started
C36_FinishedMeansFinished ==
    /\ [][(sup.ui = "gui" /\ sup.is_running /\ ~sup'.is_running)
            => (~is_any_alive(sup') /\ ~ErrorOnBus(sup'))]_vars
    /\ [][(sup.ui = "gui" /\ ~sup.is_running)
            => \A n \in SupNames : sup'.started[n] = sup.started[n]]_vars

-----------------------------------------------------------------------------
(* The processes of one display name: SpecProcs                              *)
(*                                                                         *)
(* pr.procs holds every process started for the display name, "alive",    *)
(* "exited" or "terminated"; pr.registered is the position of              *)
(* workers[name]['process'] in it (0: the name is not in workers yet);     *)
(* pr.retries is                                                           *)
(* workers[name]['retries']; pr.declined counts the start_worker calls     *)
(* that returned at "already running".  start_worker, handle_error and     *)
(* check_timeouts are called in any order and at any time.                 *)

AlreadyRunning_Never(p) == FALSE

\* display_name in self.workers and self.workers[display_name]['process'].is_alive()
AlreadyRunning(p) == p.registered # 0 /\ p.procs[p.registered] = "alive"

\* Supervisor.start_worker for the display name
StartProcess(p) ==
    IF AlreadyRunning(p) THEN [p EXCEPT !.declined = @ + 1]
    ELSE [p EXCEPT !.procs = Append(@, "alive"), !.registered = Len(p.procs) + 1]

\* Supervisor.handle_error for an ERROR of the display name: the retry branch
\* calls start_worker, the other branch emits HALTED
HandleErrorProcess(p) ==
    IF p.registered = 0 THEN p
    ELSE IF CanRetry(p.retries) THEN StartProcess([p EXCEPT !.retries = @ + 1])
    ELSE p

\* Supervisor.check_timeouts with the heartbeat expired: terminate, join for
\* five seconds, kill; the process has exited by then or has not
TerminateProcess(p, exited) ==
    IF AlreadyRunning(p) /\ exited THEN [p EXCEPT !.procs[p.registered] = "terminated"] ELSE p

InitProcs ==
    /\ pr = [procs |-> <<>>, registered |-> 0, retries |-> 0, declined |-> 0]
    /\ RunIdle
    /\ ConcIdle
    /\ CommIdle
    /\ ExtIdle
    /\ StartIdle
    /\ FilterIdle
    /\ SchemaIdle
    /\ WorkerIdle
    /\ StopIdle
    /\ UrlIdle
    /\ DownloadIdle
    /\ NamesIdle
    /\ BeatIdle
    /\ GrammarIdle

ProcsFrame == UNCHANGED <<db, phase, last, ops, cstore, pc, cur, cret, comm, storeAB, storeBA, commStep, extVars, ctl, flt, mig, wrk, stp, nu, dl, reg, hb, gq>>

\* a controller calls start_worker
ProcsStartWorker ==
    /\ Len(pr.procs) < MaxProcs
    /\ pr.declined < MaxProcs
    /\ pr' = StartProcess(pr)
    /\ ProcsFrame

\* a controller passes an ERROR of the display name to handle_error: the
\* ERROR of a process that failed, of a timeout, or an earlier one again
ProcsHandleError ==
    /\ Len(pr.procs) < MaxProcs
    /\ pr.declined < MaxProcs
    /\ pr' = HandleErrorProcess(pr)
    /\ ProcsFrame

\* check_timeouts finds the heartbeat expired
ProcsCheckTimeouts ==
    /\ \E exited \in BOOLEAN : pr' = TerminateProcess(pr, exited)
    /\ ProcsFrame

\* a process ends: run_worker returns or raises
ProcsExit ==
    /\ \E i \in 1..Len(pr.procs) :
          /\ pr.procs[i] = "alive"
          /\ pr' = [pr EXCEPT !.procs[i] = "exited"]
    /\ ProcsFrame

NextProcs == ProcsStartWorker \/ ProcsHandleError \/ ProcsCheckTimeouts \/ ProcsExit

SpecProcs == InitProcs /\ [][NextProcs]_vars

\* C37: at every moment at most one process of the display name is alive
C37_OneLiveProcessPerName ==
    Cardinality({i \in 1..Len(pr.procs) : pr.procs[i] = "alive"}) <= 1

\* a process is alive after start_worker declined to start one beside a live
\* process, and after handle_error restarted the worker
C37_Witness ==
    /\ pr.declined >= 1
    /\ pr.retries >= 1
    /\ Len(pr.procs) >= 3
    /\ AlreadyRunning(pr)

-----------------------------------------------------------------------------
(* Papers without a source URL (Spec) *)

\* C38: add_paper with a paper that has no source URL (paper_hash 0) and a
\* title no row of the store carries adds the paper as a row of its own,
\* whether or not the store already holds rows with paper_hash 0
C38_PapersWithoutUrlStored ==
    (/\ last.op = "add"
     /\ last.paper.source_url = NoUrl
     /\ \A r \in last.pre : LowerText(r.title) # LowerText(last.paper.title))
    => \E r \in LastPost \ last.pre :
          /\ r.title = last.paper.title
          /\ r.paper_hash = 0

-----------------------------------------------------------------------------
(* Validation of the queries of the grammar: SpecGrammar                    *)
(*                                                                         *)
(* gq.query is a query as the grammar builds it: OR-groups of quoted terms *)
(* joined by AND, with or without a trailing ANDNOT group; gq.text is the  *)
(* prompt written from it; gq.errors is what _validate_prompt returns.     *)

\* the characters of a quoted term: any character but the quote
TermSymbols == {"a", "nor", "(", ")"}

GrammarTerms == {t \in SeqsUpTo(TermSymbols, MaxTermLen) : t # <<>>}

\* OR-groups of one term, or of a term and "a"
GrammarGroups == {<<t>> : t \in GrammarTerms} \cup {<<t, <<"a">> >> : t \in GrammarTerms}

GrammarQueries ==
    [groups : UNION {[1..n -> GrammarGroups] : n \in 1..MaxGroups},
     excluded : {<<>>, << <<"a">> >>},
     spaced : {TRUE}]

InitGrammar ==
    /\ \E q \in GrammarQueries : gq = [phase |-> "built", query |-> q, text |-> <<>>, errors |-> {}]
    /\ RunIdle
    /\ ConcIdle
    /\ CommIdle
    /\ ExtIdle
    /\ StartIdle
    /\ FilterIdle
    /\ SchemaIdle
    /\ WorkerIdle
    /\ StopIdle
    /\ UrlIdle
    /\ DownloadIdle
    /\ NamesIdle
    /\ BeatIdle
    /\ ProcsIdle

GrammarFrame == UNCHANGED <<db, phase, last, ops, cstore, pc, cur, cret, comm, storeAB, storeBA, commStep, extVars, ctl, flt, mig, wrk, stp, nu, dl, reg, hb, pr>>

\* the query is written as the prompt text
GrammarWrite ==
    /\ gq.phase = "built"
    /\ gq' = [gq EXCEPT !.phase = "written", !.text = WriteQuery(gq.query)]
    /\ GrammarFrame

\* FilterManager._validate_prompt(text)
GrammarValidate ==
    /\ gq.phase = "written"
    /\ gq' = [gq EXCEPT !.phase = "validated", !.errors = _validate_prompt(gq.text)]
    /\ GrammarFrame

NextGrammar == GrammarWrite \/ GrammarValidate

SpecGrammar == InitGrammar /\ [][NextGrammar]_vars

\* C39: every query of the grammar passes validation, whatever characters
\* other than the quote its quoted terms contain
C39_GrammarQueriesValid == gq.phase = "validated" => gq.errors = {}

====
